---- MODULE Spec2Model ----
(***************************************************************************)
(* kekkai: file-integrity engine.                                          *)
(*   internal/hash/hash.go        walker, worker pool, glob matching       *)
(*   internal/manifest/manifest.go generate / verify                       *)
(*   internal/cache/cache.go      metadata cache                           *)
(* Strings are TLA+ strings; bytes of a file and link targets are strings. *)
(***************************************************************************)
EXTENDS Integers, Sequences, FiniteSets, Bags, TLC

(***************************************************************************)
(* Go string helpers (package strings / path/filepath) used by hash.go.    *)
(***************************************************************************)
Separator == "/"

HasPrefix(s, prefix) ==
    /\ Len(s) >= Len(prefix)
    /\ SubSeq(s, 1, Len(prefix)) = prefix

HasSuffix(s, suffix) ==
    /\ Len(s) >= Len(suffix)
    /\ SubSeq(s, Len(s) - Len(suffix) + 1, Len(s)) = suffix

TrimPrefix(s, prefix) ==
    IF HasPrefix(s, prefix) THEN SubSeq(s, Len(prefix) + 1, Len(s)) ELSE s

TrimSuffix(s, suffix) ==
    IF HasSuffix(s, suffix) THEN SubSeq(s, 1, Len(s) - Len(suffix)) ELSE s

Contains(s, sub) ==
    \E i \in 1..(Len(s) - Len(sub) + 1) : SubSeq(s, i, i + Len(sub) - 1) = sub

\* strings.ReplaceAll(s, "**", "*"): non-overlapping, left to right
RECURSIVE ReplaceStarStar(_)
ReplaceStarStar(s) ==
    IF Len(s) < 2 THEN s
    ELSE IF SubSeq(s, 1, 2) = "**" THEN "*" \o ReplaceStarStar(SubSeq(s, 3, Len(s)))
    ELSE Head(s) \o ReplaceStarStar(Tail(s))

\* index of the last separator of s, 0 when there is none
LastSep(s) ==
    LET idx == {i \in 1..Len(s) : SubSeq(s, i, i) = Separator}
    IN IF idx = {} THEN 0 ELSE CHOOSE i \in idx : \A j \in idx : j <= i

\* filepath.Base on a clean path without trailing separator
Base(path) ==
    IF path = "" THEN "." ELSE SubSeq(path, LastSep(path) + 1, Len(path))

\* filepath.Dir on a clean relative path
Dir(path) ==
    IF LastSep(path) = 0 THEN "." ELSE SubSeq(path, 1, LastSep(path) - 1)

\* filepath.Match for patterns built from literals, '*' and '?':
\* '*' matches any run of non-separator characters, '?' one such character
RECURSIVE Match(_, _)
Match(pattern, name) ==
    IF pattern = "" THEN name = ""
    ELSE IF Head(pattern) = "*"
         THEN \E k \in 0..Len(name) :
                 /\ ~Contains(SubSeq(name, 1, k), Separator)
                 /\ Match(Tail(pattern), SubSeq(name, k + 1, Len(name)))
    ELSE IF name = "" THEN FALSE
    ELSE IF Head(pattern) = "?"
         THEN Head(name) # Separator /\ Match(Tail(pattern), Tail(name))
    ELSE Head(pattern) = Head(name) /\ Match(Tail(pattern), Tail(name))

(***************************************************************************)
(* Glob dialect of the walker.                                             *)
(***************************************************************************)
matchGlob(pattern, path) ==
    IF Contains(pattern, "**")
    THEN IF pattern = "**/*" \/ pattern = "**" THEN TRUE
         ELSE IF HasSuffix(pattern, "/**")
              THEN HasPrefix(path, TrimSuffix(pattern, "/**") \o "/")
         ELSE IF HasPrefix(pattern, "**/")
              THEN Match(TrimPrefix(pattern, "**/"), Base(path))
         ELSE Match(ReplaceStarStar(pattern), path)
    ELSE Match(pattern, path)

matchExcludePatterns(path, excludes) ==
    \E i \in 1..Len(excludes) : matchGlob(excludes[i], path)

\* shouldSkipDirectory without the branch for the patterns that start
\* with "**/"
shouldSkipDirectoryExact(dirPath, excludes) ==
    \E i \in 1..Len(excludes) :
        \/ HasSuffix(excludes[i], "/**") /\ dirPath = TrimSuffix(excludes[i], "/**")
        \/ excludes[i] = "**"
        \/ excludes[i] = "**/*"

shouldSkipDirectory(dirPath, excludes) ==
    \E i \in 1..Len(excludes) :
        LET pattern == excludes[i]
            prefix  == TrimSuffix(pattern, "/**")
            dirName == TrimPrefix(prefix, "**/")
        IN \/ /\ HasSuffix(pattern, "/**")
              /\ IF HasPrefix(prefix, "**/")
                 THEN dirPath = dirName \/ HasSuffix(dirPath, "/" \o dirName)
                 ELSE dirPath = prefix
           \/ pattern = "**"
           \/ pattern = "**/*"

(***************************************************************************)
(* Byte order of strings (Go's < on strings), used by the sorts.           *)
(***************************************************************************)
AsciiSegments ==
    << <<32, " !">>,
       <<35, "#$%&'(">>,
       <<41, ")*+,-./0123456789:;<=>?@ABCDEFGHIJKLMNOPQRSTUVWXYZ[">>,
       <<93, "]^_">>,
       <<97, "abcdefghijklmnopqrstuvwxyz{|}~">> >>

\* one-character string -> byte value, for the characters of a segment
RECURSIVE SegmentCodes(_, _)
SegmentCodes(first, chars) ==
    IF chars = "" THEN <<>>
    ELSE (Head(chars) :> first) @@ SegmentCodes(first + 1, Tail(chars))

CharCodes ==
    SegmentCodes(AsciiSegments[1][1], AsciiSegments[1][2])
      @@ SegmentCodes(AsciiSegments[2][1], AsciiSegments[2][2])
      @@ SegmentCodes(AsciiSegments[3][1], AsciiSegments[3][2])
      @@ SegmentCodes(AsciiSegments[4][1], AsciiSegments[4][2])
      @@ SegmentCodes(AsciiSegments[5][1], AsciiSegments[5][2])

\* the byte value of a one-character string
CharCode(c) == CharCodes[c]

RECURSIVE StrLess(_, _)
StrLess(a, b) ==
    IF b = "" THEN FALSE
    ELSE IF a = "" THEN TRUE
    ELSE IF Head(a) = Head(b) THEN StrLess(Tail(a), Tail(b))
    ELSE CharCode(Head(a)) < CharCode(Head(b))

(***************************************************************************)
(* The file system.  tree maps every relative path of the universe to the  *)
(* object found there by lstat: nothing, a regular file with its bytes, or *)
(* a symlink with its target.  Directories are the proper prefixes of the  *)
(* paths that exist.  meta holds mtime and ctime, fault the I/O failures   *)
(* injected for a path.                                                    *)
(***************************************************************************)
VARIABLES tree, meta, fault

NoEntry == [kind |-> "none", data |-> ""]
RegularFile(bytes) == [kind |-> "file", data |-> bytes]
Symlink(target) == [kind |-> "symlink", data |-> target]

Exists(t, p) == t[p].kind # "none"

\* IsDirIn by os.Stat: a symlink to a directory counts as a directory
IsDirInFollowing(t, d) ==
    \/ d = "."
    \/ \E p \in DOMAIN t : Exists(t, p) /\ HasPrefix(p, d \o Separator)
    \/ /\ d \in DOMAIN t
       /\ t[d].kind = "symlink"
       /\ \E p \in DOMAIN t : Exists(t, p) /\ HasPrefix(p, t[d].data \o Separator)

\* the directories of t at or below which some object exists
IsDirIn(t, d) ==
    \/ d = "."
    \/ \E p \in DOMAIN t : Exists(t, p) /\ HasPrefix(p, d \o Separator)

JoinRel(d, name) == IF d = "." THEN name ELSE d \o Separator \o name

\* first path component of p below directory d
RECURSIVE FirstComponent(_)
FirstComponent(s) ==
    IF s = "" \/ Head(s) = Separator THEN "" ELSE Head(s) \o FirstComponent(Tail(s))

\* os.ReadDir names of directory d
ChildNames(t, d) ==
    {FirstComponent(IF d = "." THEN p ELSE TrimPrefix(p, d \o Separator)) :
        p \in {q \in DOMAIN t : Exists(t, q) /\ (d = "." \/ HasPrefix(q, d \o Separator))}}

\* sort.Strings on a set of names
RECURSIVE SortStrings(_)
SortStrings(S) ==
    IF S = {} THEN <<>>
    ELSE LET m == CHOOSE x \in S : \A y \in S \ {x} : StrLess(x, y)
         IN <<m>> \o SortStrings(S \ {m})

(***************************************************************************)
(* Walker: filepath.Walk with the callback of collectFiles.  Returns the   *)
(* relative paths collected, in walk order.                                *)
(***************************************************************************)
RECURSIVE walk(_, _, _)
RECURSIVE walkNames(_, _, _, _)
walkNames(t, d, names, excludes) ==
    IF names = <<>> THEN <<>>
    ELSE walk(t, JoinRel(d, Head(names)), excludes)
            \o walkNames(t, d, Tail(names), excludes)

walk(t, relPath, excludes) ==
    IF IsDirIn(t, relPath)
    THEN IF matchExcludePatterns(relPath, excludes) THEN <<>>
         ELSE IF shouldSkipDirectory(relPath, excludes) THEN <<>>
         ELSE walkNames(t, relPath, SortStrings(ChildNames(t, relPath)), excludes)
    ELSE IF matchExcludePatterns(relPath, excludes) THEN <<>>
         ELSE <<relPath>>

\* the target directory and a symlink that points at it
RealRoot == "/app"
LinkRoot == "/cur"

\* filepath.Join(rootDir, rel) and filepath.Rel(rootDir, path)
JoinPath(rootDir, rel) == IF rel = "." THEN rootDir ELSE rootDir \o Separator \o rel
Rel(rootDir, path) == IF path = rootDir THEN "." ELSE TrimPrefix(path, rootDir \o Separator)

\* collectFiles that walks without any exclude pattern
collectFilesNoExcludes(t, rootDir, excludes) ==
    IF rootDir = LinkRoot THEN <<rootDir>>
    ELSE LET rels == walk(t, ".", <<>>)
         IN [i \in 1..Len(rels) |-> JoinPath(rootDir, rels[i])]

\* filepath.Walk lstats its root: a root that is a symlink is no directory,
\* the callback sees it once, as a file with the relative path "."
collectFiles(t, rootDir, excludes) ==
    IF rootDir = LinkRoot
    THEN IF matchExcludePatterns(".", excludes) THEN <<>> ELSE <<rootDir>>
    ELSE LET rels == walk(t, ".", excludes)
         IN [i \in 1..Len(rels) |-> JoinPath(rootDir, rels[i])]

(***************************************************************************)
(* Hasher: what one worker does with one job.                              *)
(***************************************************************************)
\* SHA-256, hex encoded: an injective image of the bytes
SHA256(bytes) == "sha256<" \o bytes \o ">"

FileInfo(path, hash, size, modTime, isSymlink, linkTarget) ==
    [Path |-> path, Hash |-> hash, Size |-> size, ModTime |-> modTime,
     IsSymlink |-> isSymlink, LinkTarget |-> linkTarget]

Failure(msg, path) == [msg |-> msg, path |-> path]

\* os.Lstat: the size is the length of the bytes (of the target for a link)
LstatFails(t, f, rel) == f[rel] = "stat" \/ ~Exists(t, rel)
LstatSize(t, rel) == Len(t[rel].data)

\* CalculateDirectory working on rootDir as given
EvalSymlinksIdentity(dir) == dir

\* filepath.EvalSymlinks on a target directory
EvalSymlinks(dir) == IF dir = LinkRoot THEN RealRoot ELSE dir

\* the relative path of the object an absolute path names
Resolve(path) ==
    IF path = LinkRoot \/ HasPrefix(path, LinkRoot \o Separator)
    THEN Rel(LinkRoot, path)
    ELSE Rel(RealRoot, path)

(***************************************************************************)
(* Time.  now is the wall clock in ticks; RFC 3339 text keeps whole        *)
(* seconds only.                                                           *)
(***************************************************************************)
VARIABLE now

TicksPerSecond == 2
ZeroTime == -1

\* time.Now().UTC().Format(time.RFC3339) and time.Parse(time.RFC3339, s)
FormatRFC3339(t) == t \div TicksPerSecond
ParseRFC3339(text) == text * TicksPerSecond

(***************************************************************************)
(* Metadata cache (package cache).  cacheData is v.data of the verifier of *)
(* the running calculator, cacheFile the document at the cache path.       *)
(***************************************************************************)
VARIABLES cacheData, cacheFile

\* the directory of the cache file and the Save calls in progress
VARIABLES cacheDir, saving
saveVars == <<cacheDir, saving>>

\* v.mu of the MetadataVerifier shared by the goroutines of one process, and
\* where each goroutine is in the method it called.  mu.w is the goroutine
\* that holds the writer side (0 when none), mu.readers those that hold the
\* reader side.
VARIABLES mu, goroutine
lockVars == <<mu, goroutine>>
Goroutines == {1, 2, 3}
Unlocked == [w |-> 0, readers |-> {}]
NoGoroutines == [g \in Goroutines |-> [pc |-> "idle", method |-> ""]]

\* the verification processes that share one cache path, and the files the
\* cache directory can hold at once: the two paths and the files still open
Procs == {1, 2}
Inodes == 1..4

\* cacheDir: the file (inode) at the '.tmp' path and at the cache path, 0 for
\* none, and the content of every file; saving: where each process is in Save
NoCacheDir == [tmp |-> 0, cache |-> 0, content |-> [k \in Inodes |-> <<>>]]
NoSaving == [p \in Procs |-> [pc |-> "idle", err |-> "nil"]]

NilCache == [Version |-> "nil"]
NoFile == [Version |-> "absent"]
Malformed == [Version |-> "malformed"]

MetadataCache(createdAt) ==
    [Version |-> "2.0", CreatedAt |-> createdAt, ManifestGenTime |-> ZeroTime,
     CacheHash |-> <<>>, Files |-> <<>>]

MetadataEntry(path) ==
    [Path |-> path, Size |-> LstatSize(tree, Resolve(path)),
     ModTime |-> meta[Resolve(path)].mtime, CTime |-> meta[Resolve(path)].ctime]

\* hex SHA-256 of json.Marshal of the document with CacheHash cleared: the
\* one-element sequence holding that document, the empty string being <<>>
CacheDigest(doc) == <<[doc EXCEPT !.CacheHash = <<>>]>>

verifyCacheIntegrity(doc) ==
    IF doc.CacheHash = <<>> THEN TRUE
    ELSE CacheDigest(doc) = doc.CacheHash

\* MetadataVerifier.Load: the document kept in memory and the error returned
Load(file, t) ==
    IF file = NoFile THEN [data |-> MetadataCache(t), err |-> "nil"]
    ELSE IF file = Malformed
         THEN [data |-> MetadataCache(t), err |-> "failed to parse cache"]
    ELSE IF ~verifyCacheIntegrity(file)
         THEN [data |-> MetadataCache(t), err |-> "cache integrity check failed"]
    ELSE [data |-> file, err |-> "nil"]

SetManifestTime(data, t) ==
    IF data # NilCache THEN [data EXCEPT !.ManifestGenTime = t] ELSE data

IsValidForManifest(data, manifestTime) ==
    IF data = NilCache THEN FALSE ELSE data.CreatedAt >= manifestTime

Clear(t) == MetadataCache(t)

\* CheckMetadata that compares the size only
CheckMetadataSizeOnly(data, path) ==
    IF data = NilCache THEN FALSE
    ELSE IF path \notin DOMAIN data.Files THEN FALSE
    ELSE IF Resolve(path) \notin DOMAIN tree THEN FALSE
    ELSE IF LstatFails(tree, fault, Resolve(path)) THEN FALSE
    ELSE LstatSize(tree, Resolve(path)) = data.Files[path].Size

CheckMetadata(data, path) ==
    IF data = NilCache THEN FALSE
    ELSE IF path \notin DOMAIN data.Files THEN FALSE
    ELSE IF Resolve(path) \notin DOMAIN tree THEN FALSE
    ELSE IF LstatFails(tree, fault, Resolve(path)) THEN FALSE
    ELSE LET entry == data.Files[path]
             rel == Resolve(path)
         IN IF LstatSize(tree, rel) # entry.Size THEN FALSE
            ELSE IF meta[rel].mtime # entry.ModTime THEN FALSE
            ELSE IF meta[rel].ctime # entry.CTime THEN FALSE
            ELSE TRUE

\* MetadataVerifier.UpdateMetadata: a failing lstat leaves the document as it is
UpdateMetadata(data, path, t) ==
    LET d == IF data = NilCache THEN MetadataCache(t) ELSE data
    IN IF Resolve(path) \notin DOMAIN tree \/ LstatFails(tree, fault, Resolve(path))
       THEN d
       ELSE [d EXCEPT !.Files =
                [k \in DOMAIN d.Files \cup {path} |->
                    IF k = path THEN MetadataEntry(path) ELSE d.Files[k]]]

\* MetadataVerifier.Save: the document written over the cache path
Save(data) == [data EXCEPT !.CacheHash = CacheDigest(data)]

(***************************************************************************)
(* Calculator.  A calculator value c holds numWorkers, rateLimited (a      *)
(* limiter is set), cache (metadataCache # nil), verifyProbability in      *)
(* percent, hasManifestHashes and manifestHashes.                          *)
(***************************************************************************)
NewCalculator(numWorkers) ==
    [numWorkers |-> numWorkers, rateLimited |-> FALSE, cache |-> FALSE,
     verifyProbability |-> 0, hasManifestHashes |-> FALSE, manifestHashes |-> <<>>]

NewCalculatorWithRateLimit(numWorkers, bytesPerSec) ==
    [NewCalculator(numWorkers) EXCEPT !.rateLimited = bytesPerSec > 0]

\* SetVerifyProbability, in percent
SetVerifyProbability(c, p) ==
    [c EXCEPT !.verifyProbability = IF p < 0 THEN 0 ELSE IF p > 100 THEN 100 ELSE p]

\* a calculator that is never given the hashes of the manifest
SetManifestHashesUnset(c, files) == c

SetManifestHashes(c, files) ==
    [c EXCEPT !.hasManifestHashes = TRUE,
              !.manifestHashes =
                  [q \in {files[i].Path : i \in 1..Len(files)} |->
                      files[CHOOSE i \in 1..Len(files) :
                              /\ files[i].Path = q
                              /\ \A j \in 1..Len(files) : files[j].Path = q => j <= i].Hash]]

\* os.Open follows symlinks: the regular file reached from rel, "" when the
\* path or the target of a link does not exist or is a directory
OpenPath(t, rel) ==
    LET next(q) == IF q \in DOMAIN t /\ t[q].kind = "symlink"
                   THEN JoinRel(Dir(q), t[q].data) ELSE q
        end == next(next(next(rel)))
    IN IF end \in DOMAIN t /\ t[end].kind = "file" THEN end ELSE ""

\* hashFileWithHasher: open and read the file; with a limiter the copy loop
\* polls the context before every chunk
hashFileWithHasher(c, rel, ctxDone) ==
    IF fault[rel] = "io" \/ OpenPath(tree, rel) = ""
    THEN [ok |-> FALSE, cause |-> "io"]
    ELSE IF c.rateLimited /\ ctxDone
         THEN [ok |-> FALSE, cause |-> "context canceled"]
    ELSE [ok |-> TRUE, hash |-> SHA256(tree[OpenPath(tree, rel)].data)]

\* the decision taken on a cache hit: the hash calculation is skipped when
\* verifyProbability == 0 || rand.Float64() > verifyProbability (in percent)
skipHashInverted(verifyProbability, rnd) ==
    verifyProbability = 0 \/ rnd < verifyProbability

skipHash(verifyProbability, rnd) ==
    verifyProbability = 0 \/ rnd > verifyProbability

\* the body of the worker loop for one job: lstat, cache decision, hash,
\* result.  rnd is the draw of rand.Float64 in percent.
processJob(c, data, rootDir, path, rnd, ctxDone) ==
    LET rel == Rel(rootDir, path)
    IN IF path = LinkRoot
       THEN [ok |-> TRUE,
             rec |-> FileInfo(rel, SHA256("symlink:" \o RealRoot), Len(RealRoot), 0,
                              TRUE, RealRoot)]
       ELSE IF LstatFails(tree, fault, rel)
       THEN [ok |-> FALSE, err |-> Failure("failed to stat", path)]
       ELSE
       LET isLink == tree[rel].kind = "symlink"
           hit == c.cache /\ ~isLink /\ CheckMetadata(data, path)
           trust == hit /\ skipHash(c.verifyProbability, rnd)
           useRef == trust /\ c.hasManifestHashes /\ rel \in DOMAIN c.manifestHashes
           needHashCalculation == ~(useRef \/ (trust /\ ~c.hasManifestHashes))
           h == hashFileWithHasher(c, rel, ctxDone)
           info(fileHash) ==
               FileInfo(rel, fileHash, LstatSize(tree, rel), meta[rel].mtime, isLink,
                        IF isLink /\ fault[rel] # "io" THEN tree[rel].data ELSE "")
       IN IF needHashCalculation /\ isLink
          THEN IF fault[rel] = "io"
               THEN [ok |-> FALSE, err |-> Failure("failed to read symlink", path)]
               ELSE [ok |-> TRUE, rec |-> info(SHA256("symlink:" \o tree[rel].data))]
          ELSE IF needHashCalculation
          THEN IF ~h.ok
               THEN [ok |-> FALSE, err |-> Failure("failed to hash", path)]
               ELSE [ok |-> TRUE, rec |-> info(h.hash)]
          ELSE [ok |-> TRUE, rec |-> info(IF useRef THEN c.manifestHashes[rel] ELSE "")]

\* sort.Slice(fileInfos, Path <)
RECURSIVE insertByPath(_, _)
insertByPath(sorted, r) ==
    IF sorted = <<>> THEN <<r>>
    ELSE IF StrLess(r.Path, Head(sorted).Path) THEN <<r>> \o sorted
    ELSE <<Head(sorted)>> \o insertByPath(Tail(sorted), r)

\* CalculateDirectory without the sort: the records in the order collected
sortByPathUnsorted(fileInfos) == fileInfos

RECURSIVE sortByPath(_)
sortByPath(fileInfos) ==
    IF fileInfos = <<>> THEN <<>>
    ELSE insertByPath(sortByPath(SubSeq(fileInfos, 1, Len(fileInfos) - 1)),
                      fileInfos[Len(fileInfos)])

(***************************************************************************)
(* Verifier: the comparison of verifyWithCalculator.  Findings are the     *)
(* lines of the error; their order follows Go's map iteration and is kept  *)
(* out of the model by collecting them in a bag.  The arrow of the type    *)
(* and size findings is written "->".                                      *)
(***************************************************************************)
TypeName(isSymlink) == IF isSymlink THEN "symlink" ELSE "file"

TypeFinding(path, old, new) ==
    "modified: " \o path \o " (type " \o TypeName(old) \o "->" \o TypeName(new) \o ")"
HashFinding(path) == "modified: " \o path \o " (hash)"
SizeFinding(path, old, new) ==
    "modified: " \o path \o " (size " \o ToString(old) \o "->" \o ToString(new) \o ")"
DeletedFinding(path) == "deleted: " \o path
AddedFinding(path) == "added: " \o path

\* manifestMap / currentMap: the last record of a path wins
FileMap(files) ==
    [q \in {files[i].Path : i \in 1..Len(files)} |->
        files[CHOOSE i \in 1..Len(files) :
                /\ files[i].Path = q
                /\ \A j \in 1..Len(files) : files[j].Path = q => j <= i]]

\* expectedIssues without the size comparison
expectedIssuesNoSize(manifestMap, currentMap, path) ==
    IF path \in DOMAIN currentMap
    THEN IF manifestMap[path].IsSymlink # currentMap[path].IsSymlink
         THEN {TypeFinding(path, manifestMap[path].IsSymlink, currentMap[path].IsSymlink)}
         ELSE IF manifestMap[path].Hash # currentMap[path].Hash
         THEN {HashFinding(path)}
         ELSE {}
    ELSE {DeletedFinding(path)}

\* expectedIssues without the type comparison
expectedIssuesNoType(manifestMap, currentMap, path) ==
    IF path \in DOMAIN currentMap
    THEN IF manifestMap[path].Hash # currentMap[path].Hash
         THEN {HashFinding(path)}
         ELSE IF manifestMap[path].Size # currentMap[path].Size
         THEN {SizeFinding(path, manifestMap[path].Size, currentMap[path].Size)}
         ELSE {}
    ELSE {DeletedFinding(path)}

\* expectedIssues without the continue statements: every check appends
expectedIssuesAllChecks(manifestMap, currentMap, path) ==
    IF path \in DOMAIN currentMap
    THEN (IF manifestMap[path].IsSymlink # currentMap[path].IsSymlink
          THEN {TypeFinding(path, manifestMap[path].IsSymlink, currentMap[path].IsSymlink)}
          ELSE {})
         \cup (IF manifestMap[path].Hash # currentMap[path].Hash
               THEN {HashFinding(path)} ELSE {})
         \cup (IF manifestMap[path].Size # currentMap[path].Size
               THEN {SizeFinding(path, manifestMap[path].Size, currentMap[path].Size)}
               ELSE {})
    ELSE {DeletedFinding(path)}

\* expectedIssues that compares the size of regular files only
expectedIssuesSizeOfFilesOnly(manifestMap, currentMap, path) ==
    IF path \in DOMAIN currentMap
    THEN IF manifestMap[path].IsSymlink # currentMap[path].IsSymlink
         THEN {TypeFinding(path, manifestMap[path].IsSymlink, currentMap[path].IsSymlink)}
         ELSE IF manifestMap[path].Hash # currentMap[path].Hash
         THEN {HashFinding(path)}
         ELSE IF ~manifestMap[path].IsSymlink /\ manifestMap[path].Size # currentMap[path].Size
         THEN {SizeFinding(path, manifestMap[path].Size, currentMap[path].Size)}
         ELSE {}
    ELSE {DeletedFinding(path)}

\* expectedIssues that also compares the modification time
expectedIssuesWithModTime(manifestMap, currentMap, path) ==
    IF path \in DOMAIN currentMap
    THEN IF manifestMap[path].IsSymlink # currentMap[path].IsSymlink
         THEN {TypeFinding(path, manifestMap[path].IsSymlink, currentMap[path].IsSymlink)}
         ELSE IF manifestMap[path].Hash # currentMap[path].Hash
         THEN {HashFinding(path)}
         ELSE IF manifestMap[path].Size # currentMap[path].Size
         THEN {SizeFinding(path, manifestMap[path].Size, currentMap[path].Size)}
         ELSE IF manifestMap[path].ModTime # currentMap[path].ModTime
         THEN {"modified: " \o path \o " (mtime)"}
         ELSE {}
    ELSE {DeletedFinding(path)}

\* the findings the first loop appends for one path of the manifest
expectedIssues(manifestMap, currentMap, path) ==
    IF path \in DOMAIN currentMap
    THEN LET expectedFile == manifestMap[path]
             actualFile == currentMap[path]
         IN IF expectedFile.IsSymlink # actualFile.IsSymlink
            THEN {TypeFinding(path, expectedFile.IsSymlink, actualFile.IsSymlink)}
            ELSE IF expectedFile.Hash # actualFile.Hash
            THEN {HashFinding(path)}
            ELSE IF expectedFile.Size # actualFile.Size
            THEN {SizeFinding(path, expectedFile.Size, actualFile.Size)}
            ELSE {}
    ELSE {DeletedFinding(path)}

\* addedIssues with the test of the second loop inverted
addedIssuesInverted(manifestMap, path) ==
    IF path \in DOMAIN manifestMap THEN {AddedFinding(path)} ELSE {}

\* the findings the second loop appends for one path of the current result
addedIssues(manifestMap, path) ==
    IF path \notin DOMAIN manifestMap THEN {AddedFinding(path)} ELSE {}

\* issues: every line with the number of times the two loops append it
compareFiles(manifestFiles, currentFiles) ==
    LET manifestMap == FileMap(manifestFiles)
        currentMap == FileMap(currentFiles)
        first(path) == expectedIssues(manifestMap, currentMap, path)
        second(path) == addedIssues(manifestMap, path)
        lines == UNION {first(q) : q \in DOMAIN manifestMap}
                   \cup UNION {second(q) : q \in DOMAIN currentMap}
    IN [line \in lines |->
          Cardinality({q \in DOMAIN manifestMap : line \in first(q)})
            + Cardinality({q \in DOMAIN currentMap : line \in second(q)})]

NilError == [kind |-> "nil"]
IntegrityError(issues) == [kind |-> "integrity check failed", issues |-> issues]
CalcError(wrap, e) == [kind |-> wrap, cause |-> e]

\* verifyWithCalculator after CalculateDirectory returned (files, err)
verifyResult(manifestFiles, calc) ==
    IF calc.err # NilError
    THEN CalcError("failed to calculate current state", calc.err)
    ELSE LET issues == compareFiles(manifestFiles, calc.files)
         IN IF BagCardinality(issues) > 0 THEN IntegrityError(issues) ELSE NilError

(***************************************************************************)
(* CalculateDirectory under a context that is never cancelled: every job   *)
(* is processed, so the outcome is decided by the jobs alone.  The set of  *)
(* (files, err) pairs a run can return: with one worker the first failing  *)
(* job in walk order reports first, with more workers any failing job can. *)
(* rnd gives the random draw of the job of each path.                      *)
(***************************************************************************)
CalculateDirectoryRuns(c, data, rootDir, excludes, rnd) ==
    LET resolvedDir == EvalSymlinks(rootDir)
        files == collectFiles(tree, resolvedDir, excludes)
        out == [i \in 1..Len(files) |->
                   processJob(c, data, resolvedDir, files[i], rnd[Rel(resolvedDir, files[i])], FALSE)]
        failed == {i \in 1..Len(files) : ~out[i].ok}
        firstErr == IF c.numWorkers = 1
                    THEN {i \in failed : \A j \in failed : i <= j}
                    ELSE failed
    IN IF fault["."] # "none"
       THEN {[files |-> <<>>, err |-> CalcError("failed to collect files", Failure("walk", resolvedDir))]}
       ELSE IF failed # {}
       THEN {[files |-> <<>>, err |-> CalcError("failed to calculate file hashes", out[i].err)] :
                i \in firstErr}
       ELSE {[files |-> sortByPath([i \in 1..Len(files) |-> out[i].rec]), err |-> NilError]}

(***************************************************************************)
(* Manifest (package manifest).                                            *)
(***************************************************************************)
VARIABLES manifest, ret, baseline, edited, manifestFile

NoManifest == [Version |-> "none"]
NoReturn == [op |-> "none"]
\* no manifest file has been written
NoManifestFile == [medium |-> "none"]

Manifest(result, excludes, t) ==
    [Version |-> "1.0", FileCount |-> Len(result), GeneratedAt |-> FormatRFC3339(t),
     Excludes |-> excludes, Files |-> result]

\* the exclude list verifyWithCalculator hands to CalculateDirectory; the
\* caller of a verification holds no parameter that reaches it
verifyExcludesFromCaller(m, callerExcludes) == callerExcludes
verifyExcludes(m, callerExcludes) == m.Excludes

(***************************************************************************)
(* State of a calculateFileHashes run in progress.                         *)
(*   call        the API call being served and its arguments               *)
(*   calc        the calculator of the call                                *)
(*   ctxDone     the context of the call is cancelled                      *)
(*   files       the paths collected by the walk, sent to jobs up to sent  *)
(*   jobs, results, errors   the buffered channels; closed tells which of  *)
(*               them are closed                                           *)
(*   worker      per worker goroutine: where it stands and what it holds   *)
(*   fileInfos, collectedErrors   the lists of the collecting goroutine    *)
(*   reported    every error sent by a worker, in the order of sending     *)
(***************************************************************************)
VARIABLES call, calc, ctxDone, files, sent, jobs, results, errors, closed,
          worker, fileInfos, collectedErrors, reported

fsVars == <<tree, meta, fault, now>>
cacheVars == <<cacheData, cacheFile>>
apiVars == <<manifest, ret, baseline, edited, manifestFile, saveVars, lockVars>>
poolVars == <<call, calc, ctxDone, files, sent, jobs, results, errors, closed,
              worker, fileInfos, collectedErrors, reported>>
vars == <<fsVars, cacheVars, apiVars, poolVars>>

NoCall == [name |-> "none"]

\* no call is being served
PoolIdle ==
    /\ call = NoCall
    /\ calc = NewCalculator(1)
    /\ ctxDone = FALSE
    /\ files = <<>>
    /\ sent = 0
    /\ jobs = <<>>
    /\ results = <<>>
    /\ errors = <<>>
    /\ closed = {}
    /\ worker = <<>>
    /\ fileInfos = <<>>
    /\ collectedErrors = <<>>
    /\ reported = <<>>

(***************************************************************************)
(* Universe of the sequential specification SpecFlow: a deployed tree with *)
(* a tracked file, log files at two depths and a logs directory.           *)
(***************************************************************************)
Paths == {"a", "x.log", "d/x.log", "logs/b"}

EntryChoices(path) ==
    IF path = "a"
    THEN {NoEntry, RegularFile("v1"), RegularFile("v2"), RegularFile("symlink:t"),
          Symlink("t")}
    ELSE IF path = "x.log" THEN {NoEntry, RegularFile("v1"), Symlink("d"), Symlink("a")}
    ELSE {NoEntry, RegularFile("v1")}

Trees == {t \in [Paths -> UNION {EntryChoices(q) : q \in Paths}] :
             \A q \in Paths : t[q] \in EntryChoices(q)}

\* the trees a manifest is generated from
InitTrees == {t \in Trees : /\ t["a"] \notin {NoEntry, RegularFile("v2")}
                            /\ t["x.log"].kind # "symlink"
                            /\ t["d/x.log"] # NoEntry}

\* link targets: a name that does not exist, a directory and a file of the tree
LinkTargets == {"t", "d", "a"}

ExcludeLists ==
    {<<>>, <<"*.log">>, <<"**/*.log">>, <<"logs/**">>, <<"*.log", "logs/**">>, <<"*">>,
     <<"**/logs/*">>}
CallerExcludes == {<<>>, <<"a">>}

TargetDirs == {RealRoot, LinkRoot}
MaxWorkers == 2
NoFault == [q \in Paths \cup {"."} |-> "none"]
NoDraws == [q \in Paths |-> 0]

InitFlow ==
    /\ tree \in InitTrees
    /\ meta = [q \in Paths |-> [mtime |-> 0, ctime |-> 0]]
    /\ fault = NoFault
    /\ now = 0
    /\ cacheData = NilCache
    /\ cacheFile = NoFile
    /\ manifest = NoManifest
    /\ ret = NoReturn
    /\ baseline = tree
    /\ edited = FALSE
    /\ manifestFile = NoManifestFile
    /\ cacheDir = NoCacheDir
    /\ saving = NoSaving
    /\ mu = Unlocked
    /\ goroutine = NoGoroutines
    /\ PoolIdle

\* Generator.Generate with a context that is never cancelled
Generate(targetDir, numWorkers, excludes) ==
    /\ manifest = NoManifest
    /\ \E run \in CalculateDirectoryRuns(NewCalculator(numWorkers), NilCache,
                                         targetDir, excludes, NoDraws) :
          IF run.err # NilError
          THEN /\ ret' = [op |-> "generate",
                          err |-> CalcError("failed to calculate directory hash", run.err)]
               /\ UNCHANGED manifest
          ELSE /\ manifest' = Manifest(run.files, excludes, now)
               /\ ret' = [op |-> "generate", err |-> NilError]
    /\ baseline' = tree
    /\ UNCHANGED <<fsVars, cacheVars, edited, manifestFile, saveVars, lockVars, poolVars>>

\* the file system changes under the engine: os.WriteFile, os.Symlink, os.Remove
WriteFile(path, bytes, t) ==
    /\ manifest # NoManifest
    /\ RegularFile(bytes) \in EntryChoices(path) \ {tree[path]}
    /\ tree' = [tree EXCEPT ![path] = RegularFile(bytes)]
    /\ meta' = [meta EXCEPT ![path] = [mtime |-> t, ctime |-> t]]
    /\ ret' = NoReturn
    /\ UNCHANGED <<fault, now, cacheVars, manifest, baseline, edited, manifestFile, saveVars, lockVars, poolVars>>

MakeSymlink(path, target, t) ==
    /\ manifest # NoManifest
    /\ Symlink(target) \in EntryChoices(path) \ {tree[path]}
    /\ tree' = [tree EXCEPT ![path] = Symlink(target)]
    /\ meta' = [meta EXCEPT ![path] = [mtime |-> t, ctime |-> t]]
    /\ ret' = NoReturn
    /\ UNCHANGED <<fault, now, cacheVars, manifest, baseline, edited, manifestFile, saveVars, lockVars, poolVars>>

Remove(path) ==
    /\ manifest # NoManifest
    /\ Exists(tree, path)
    /\ tree' = [tree EXCEPT ![path] = NoEntry]
    /\ ret' = NoReturn
    /\ UNCHANGED <<meta, fault, now, cacheVars, manifest, baseline, edited, manifestFile, saveVars, lockVars, poolVars>>

\* a manifest file whose size field of one record was rewritten is loaded
\* in place of the generated one (LoadFromFile accepts any well-formed file)
LoadEdited(path, size) ==
    /\ manifest # NoManifest
    /\ ~edited
    /\ ret.op \in {"none", "generate"}
    /\ \E i \in 1..Len(manifest.Files) :
          /\ manifest.Files[i].Path = path
          /\ manifest.Files[i].Size # size
          /\ manifest' = [manifest EXCEPT !.Files[i].Size = size]
    /\ edited' = TRUE
    /\ ret' = NoReturn
    /\ UNCHANGED <<fsVars, cacheVars, baseline, manifestFile, saveVars, lockVars, poolVars>>

\* what a verification entry point leaves to its caller: err is the value
\* returned, excludes the list handed to CalculateDirectory, caller the list
\* the caller holds, current what CalculateDirectory returned
VerifyReturn(entry, targetDir, callerExcludes, excludes, run) ==
    [op |-> "verify", entry |-> entry, err |-> verifyResult(manifest.Files, run),
     excludes |-> excludes, caller |-> callerExcludes, current |-> run,
     target |-> targetDir]

\* Manifest.Verify with a context that is never cancelled.  callerExcludes
\* stands for whatever exclude list the caller holds; no parameter carries it.
Verify(targetDir, numWorkers, callerExcludes) ==
    /\ manifest # NoManifest
    /\ ret = NoReturn
    /\ LET calculator == NewCalculator(numWorkers)
           excludes == verifyExcludes(manifest, callerExcludes)
       IN \E run \in CalculateDirectoryRuns(calculator, NilCache, targetDir, excludes, NoDraws) :
             ret' = VerifyReturn("Verify", targetDir, callerExcludes, excludes, run)
    /\ UNCHANGED <<fsVars, cacheVars, manifest, baseline, edited, manifestFile, saveVars, lockVars, poolVars>>

\* Manifest.VerifyWithRateLimit with a context that is never cancelled
VerifyWithRateLimit(targetDir, numWorkers, bytesPerSec, callerExcludes) ==
    /\ manifest # NoManifest
    /\ ret = NoReturn
    /\ LET calculator == NewCalculatorWithRateLimit(numWorkers, bytesPerSec)
           excludes == verifyExcludes(manifest, callerExcludes)
       IN \E run \in CalculateDirectoryRuns(calculator, NilCache, targetDir, excludes, NoDraws) :
             ret' = VerifyReturn("VerifyWithRateLimit", targetDir, callerExcludes, excludes, run)
    /\ UNCHANGED <<fsVars, cacheVars, manifest, baseline, edited, manifestFile, saveVars, lockVars, poolVars>>

NextFlow ==
    \/ \E d \in TargetDirs, w \in 1..MaxWorkers, e \in ExcludeLists : Generate(d, w, e)
    \/ \E q \in Paths, b \in {"v1", "symlink:t"} : WriteFile(q, b, 0)
    \/ \E q \in Paths, target \in LinkTargets : MakeSymlink(q, target, 0)
    \/ \E q \in Paths : Remove(q)
    \/ LoadEdited("a", 7)
    \/ \E d \in TargetDirs, w \in 1..MaxWorkers, e \in CallerExcludes : Verify(d, w, e)
    \/ \E d \in TargetDirs, w \in 1..MaxWorkers, e \in CallerExcludes :
          VerifyWithRateLimit(d, w, 1024, e)

SpecFlow == InitFlow /\ [][NextFlow]_vars

(***************************************************************************)
(* Properties of the sequential specification                             *)
(***************************************************************************)
PathsOf(fileList) == {fileList[i].Path : i \in 1..Len(fileList)}

\* the lines of issues that speak about path, counted with multiplicity
IsAbout(line, path) ==
    \/ HasPrefix(line, "modified: " \o path \o " (")
    \/ line = DeletedFinding(path)
    \/ line = AddedFinding(path)

RECURSIVE BagCount(_, _)
BagCount(bag, lines) ==
    IF lines = {} THEN 0
    ELSE LET l == CHOOSE x \in lines : TRUE
         IN CopiesIn(l, bag) + BagCount(bag, lines \ {l})

FindingsAbout(issues, path) ==
    BagCount(issues, {line \in BagToSet(issues) : IsAbout(line, path)})

\* a verification has returned and its CalculateDirectory succeeded
Verified == ret.op = "verify" /\ ret.current.err = NilError

\* manifest and recomputed result agree on the paths and on type, hash and
\* size of every path
TreeMatchesManifest ==
    /\ PathsOf(manifest.Files) = PathsOf(ret.current.files)
    /\ \A i \in 1..Len(manifest.Files), j \in 1..Len(ret.current.files) :
          manifest.Files[i].Path = ret.current.files[j].Path =>
             /\ manifest.Files[i].IsSymlink = ret.current.files[j].IsSymlink
             /\ manifest.Files[i].Hash = ret.current.files[j].Hash
             /\ manifest.Files[i].Size = ret.current.files[j].Size

\* C1: Verify without a cache succeeds exactly when the recomputed result
\* has the paths of the manifest and the same type, hash and size for each
\* of them; otherwise it returns "integrity check failed" with at least one
\* finding.
C1_VerifyIffMatch ==
    Verified =>
       /\ (ret.err = NilError) <=> TreeMatchesManifest
       /\ ~TreeMatchesManifest =>
             /\ ret.err.kind = "integrity check failed"
             /\ BagCardinality(ret.err.issues) >= 1

\* C1 witness: a verification failed on a path whose type and hash agree and
\* whose size alone differs, all paths being present on both sides
C1_Witness ==
    /\ Verified
    /\ ret.err.kind = "integrity check failed"
    /\ PathsOf(manifest.Files) = PathsOf(ret.current.files)
    /\ \E i \in 1..Len(manifest.Files), j \in 1..Len(ret.current.files) :
          /\ manifest.Files[i].Path = ret.current.files[j].Path
          /\ manifest.Files[i].IsSymlink = ret.current.files[j].IsSymlink
          /\ manifest.Files[i].Hash = ret.current.files[j].Hash
          /\ manifest.Files[i].Size # ret.current.files[j].Size

\* C2: a path of manifest and recomputed result whose is_symlink flag
\* differs makes verification fail with exactly one finding for the path,
\* the type finding, whatever hashes and sizes are; a symlink to S replaced
\* by a regular file with bytes "symlink:" + S, or the converse, is such a
\* path.
C2_TypeChangeReported ==
    Verified =>
       /\ \A i \in 1..Len(manifest.Files), j \in 1..Len(ret.current.files) :
             /\ manifest.Files[i].Path = ret.current.files[j].Path
             /\ manifest.Files[i].IsSymlink # ret.current.files[j].IsSymlink
             => /\ ret.err.kind = "integrity check failed"
                /\ CopiesIn(TypeFinding(manifest.Files[i].Path, manifest.Files[i].IsSymlink,
                                        ret.current.files[j].IsSymlink), ret.err.issues) = 1
                /\ FindingsAbout(ret.err.issues, manifest.Files[i].Path) = 1
       /\ \A i \in 1..Len(manifest.Files) :
             LET m == manifest.Files[i]
             IN /\ m.IsSymlink /\ tree[m.Path] = RegularFile("symlink:" \o m.LinkTarget)
                   => /\ ret.err.kind = "integrity check failed"
                      /\ CopiesIn(TypeFinding(m.Path, TRUE, FALSE), ret.err.issues) = 1
                /\ ~m.IsSymlink /\ tree[m.Path].kind = "symlink"
                   /\ m.Hash = SHA256("symlink:" \o tree[m.Path].data)
                   => /\ ret.err.kind = "integrity check failed"
                      /\ CopiesIn(TypeFinding(m.Path, FALSE, TRUE), ret.err.issues) = 1

\* C2 witness: the manifest records a symlink, the tree holds a regular file
\* with the link descriptor as bytes, both hashes are equal
C2_Witness ==
    /\ Verified
    /\ \E i \in 1..Len(manifest.Files), j \in 1..Len(ret.current.files) :
          /\ manifest.Files[i].Path = ret.current.files[j].Path
          /\ manifest.Files[i].IsSymlink /\ ~ret.current.files[j].IsSymlink
          /\ manifest.Files[i].Hash = ret.current.files[j].Hash
          /\ tree[manifest.Files[i].Path] = RegularFile("symlink:" \o manifest.Files[i].LinkTarget)

\* the tree differs from the tree of the generation only at excluded paths
OnlyExcludedTouched ==
    \A q \in Paths : tree[q] # baseline[q] => matchExcludePatterns(q, manifest.Excludes)

\* C4: a generated manifest holds no record whose path matches one of its
\* exclude patterns, and whatever is created, changed or deleted at paths
\* matching a pattern, Verify succeeds as long as every other entry is as it
\* was at generation.
C4_ExclusionSound ==
    /\ manifest # NoManifest =>
          \A i \in 1..Len(manifest.Files) :
             ~matchExcludePatterns(manifest.Files[i].Path, manifest.Excludes)
    /\ Verified /\ ~edited /\ OnlyExcludedTouched => ret.err = NilError

\* C4 witness: a verification succeeded after an excluded path was created,
\* one changed or one removed, the manifest tracking some file
C4_Witness ==
    /\ Verified /\ ~edited /\ OnlyExcludedTouched
    /\ Len(manifest.Files) >= 1
    /\ manifest.Excludes # <<>>
    /\ \E q \in Paths : tree[q] # baseline[q] /\ tree[q].kind = "symlink"
    /\ ret.err = NilError

(***************************************************************************)
(* The worker pool of calculateFileHashes, one step per channel operation. *)
(* A call is started by StartGenerate or StartVerify, which evaluate the   *)
(* target directory, walk it and start the goroutines; Return is the       *)
(* collecting goroutine leaving calculateFileHashes and the return of the  *)
(* API call.                                                               *)
(***************************************************************************)
MaxBuffer == 100

\* bufferSize := min(c.numWorkers*2, 100)
BufferSize(c) == IF c.numWorkers * 2 < MaxBuffer THEN c.numWorkers * 2 ELSE MaxBuffer

\* the deployed tree of the pool specification and the exclude lists in use
PoolTree ==
    [q \in Paths |->
        IF q = "a" THEN RegularFile("v1")
        ELSE IF q = "x.log" THEN Symlink("t")
        ELSE IF q = "d/x.log" THEN RegularFile("v1")
        ELSE NoEntry]
PoolExcludes == {<<>>, <<"*.log">>}
\* the failures that can appear: lstat of a, readlink of x.log, open or read
\* of d/x.log, and the walk of the root
PoolFaults ==
    ("a" :> "stat") @@ ("x.log" :> "io") @@ ("d/x.log" :> "io") @@ ("." :> "io")

\* the value a call leaves to its caller, with the history of the run:
\* current is what CalculateDirectory returned, collected the records in the
\* order of collection, reported the errors in the order the workers sent
\* them, walked the paths collected by the walk
ReturnOf(name, excludes, run, cancelled, collected, sentErrors, walked) ==
    IF name = "generate"
    THEN [op |-> "generate",
          err |-> IF run.err # NilError
                  THEN CalcError("failed to calculate directory hash", run.err)
                  ELSE NilError,
          manifest |-> IF run.err # NilError THEN NoManifest
                       ELSE Manifest(run.files, excludes, now),
          excludes |-> excludes, current |-> run, cancelled |-> cancelled,
          collected |-> collected, reported |-> sentErrors, walked |-> walked]
    ELSE [op |-> "verify", err |-> verifyResult(manifest.Files, run),
          manifest |-> NoManifest,
          excludes |-> excludes, current |-> run, cancelled |-> cancelled,
          collected |-> collected, reported |-> sentErrors, walked |-> walked]

\* the end of calculateFileHashes: the first collected error if any
calculateFileHashesReturn(infos, errs) ==
    IF Len(errs) > 0 THEN [files |-> <<>>, err |-> errs[1]]
    ELSE [files |-> infos, err |-> NilError]

\* the end of CalculateDirectory: wrap the error or sort the records
CalculateDirectoryReturn(hashes) ==
    IF hashes.err # NilError
    THEN [files |-> <<>>, err |-> CalcError("failed to calculate file hashes", hashes.err)]
    ELSE [files |-> sortByPath(hashes.files), err |-> NilError]

Init ==
    /\ tree = PoolTree
    /\ meta = [q \in Paths |-> [mtime |-> 0, ctime |-> 0]]
    /\ fault = NoFault
    /\ now = 0
    /\ cacheData = NilCache
    /\ cacheFile = NoFile
    /\ \E e \in PoolExcludes :
          \E run \in CalculateDirectoryRuns(NewCalculator(1), NilCache, RealRoot, e, NoDraws) :
             manifest = Manifest(run.files, e, now)
    /\ ret = NoReturn
    /\ baseline = tree
    /\ edited = FALSE
    /\ manifestFile = NoManifestFile
    /\ cacheDir = NoCacheDir
    /\ saving = NoSaving
    /\ mu = Unlocked
    /\ goroutine = NoGoroutines
    /\ PoolIdle

\* an I/O failure appears at a path (or at the root, failing the walk)
InjectFault(path, kind) ==
    /\ call = NoCall
    /\ fault[path] = "none"
    /\ IF path = "." THEN TRUE ELSE Exists(tree, path)
    /\ fault' = [fault EXCEPT ![path] = kind]
    /\ ret' = NoReturn
    /\ UNCHANGED <<tree, meta, now, cacheVars, manifest, baseline, edited, manifestFile, saveVars, lockVars, poolVars>>

\* CalculateDirectory up to the start of the goroutines
StartCall(name, targetDir, numWorkers, bytesPerSec, excludes) ==
    /\ call = NoCall
    /\ LET calculator == NewCalculatorWithRateLimit(numWorkers, bytesPerSec)
           resolvedDir == EvalSymlinks(targetDir)
       IN IF fault["."] # "none"
          THEN /\ ret' = ReturnOf(name, excludes,
                            [files |-> <<>>,
                             err |-> CalcError("failed to collect files",
                                               Failure("walk", resolvedDir))],
                            FALSE, <<>>, <<>>, <<>>)
               /\ UNCHANGED poolVars
          ELSE /\ call' = [name |-> name, rootDir |-> resolvedDir, excludes |-> excludes]
               /\ calc' = calculator
               /\ files' = collectFiles(tree, resolvedDir, excludes)
               /\ worker' = [i \in 1..numWorkers |-> [pc |-> "select"]]
               /\ ret' = NoReturn
               /\ UNCHANGED <<ctxDone, sent, jobs, results, errors, closed,
                              fileInfos, collectedErrors, reported>>
    /\ UNCHANGED <<fsVars, cacheVars, manifest, baseline, edited, manifestFile, saveVars, lockVars>>

StartGenerate(targetDir, numWorkers, bytesPerSec, excludes) ==
    StartCall("generate", targetDir, numWorkers, bytesPerSec, excludes)

StartVerify(targetDir, numWorkers, bytesPerSec, callerExcludes) ==
    /\ manifest # NoManifest
    /\ StartCall("verify", targetDir, numWorkers, bytesPerSec,
                 verifyExcludes(manifest, callerExcludes))

\* the context of the running call is cancelled (deadline or signal)
Cancel ==
    /\ call # NoCall
    /\ ~ctxDone
    /\ ctxDone' = TRUE
    /\ UNCHANGED <<fsVars, cacheVars, apiVars, call, calc, files, sent, jobs, results,
                   errors, closed, worker, fileInfos, collectedErrors, reported>>

\* the job sender: select on ctx.Done() and the send; when both are ready
\* either case may be taken
SendJob ==
    /\ call # NoCall
    /\ "jobs" \notin closed
    /\ sent < Len(files)
    /\ Len(jobs) < BufferSize(calc)
    /\ jobs' = Append(jobs, files[sent + 1])
    /\ sent' = sent + 1
    /\ UNCHANGED <<fsVars, cacheVars, apiVars, call, calc, ctxDone, files, results,
                   errors, closed, worker, fileInfos, collectedErrors, reported>>

SenderCancelled ==
    /\ call # NoCall
    /\ "jobs" \notin closed
    /\ sent < Len(files)
    /\ ctxDone
    /\ closed' = closed \cup {"jobs"}
    /\ UNCHANGED <<fsVars, cacheVars, apiVars, call, calc, ctxDone, files, sent, jobs,
                   results, errors, worker, fileInfos, collectedErrors, reported>>

SenderDone ==
    /\ call # NoCall
    /\ "jobs" \notin closed
    /\ sent = Len(files)
    /\ closed' = closed \cup {"jobs"}
    /\ UNCHANGED <<fsVars, cacheVars, apiVars, call, calc, ctxDone, files, sent, jobs,
                   results, errors, worker, fileInfos, collectedErrors, reported>>

\* worker i in its select: the context is done
WorkerCancelled(i) ==
    /\ call # NoCall
    /\ worker[i].pc = "select"
    /\ ctxDone
    /\ worker' = [worker EXCEPT ![i] = [pc |-> "exit"]]
    /\ UNCHANGED <<fsVars, cacheVars, apiVars, call, calc, ctxDone, files, sent, jobs,
                   results, errors, closed, fileInfos, collectedErrors, reported>>

\* worker i in its select: a job is received
WorkerReceive(i) ==
    /\ call # NoCall
    /\ worker[i].pc = "select"
    /\ jobs # <<>>
    /\ worker' = [worker EXCEPT ![i] = [pc |-> "work", path |-> Head(jobs)]]
    /\ jobs' = Tail(jobs)
    /\ UNCHANGED <<fsVars, cacheVars, apiVars, call, calc, ctxDone, files, sent,
                   results, errors, closed, fileInfos, collectedErrors, reported>>

\* worker i in its select: jobs is closed and drained
WorkerJobsClosed(i) ==
    /\ call # NoCall
    /\ worker[i].pc = "select"
    /\ jobs = <<>>
    /\ "jobs" \in closed
    /\ worker' = [worker EXCEPT ![i] = [pc |-> "exit"]]
    /\ UNCHANGED <<fsVars, cacheVars, apiVars, call, calc, ctxDone, files, sent, jobs,
                   results, errors, closed, fileInfos, collectedErrors, reported>>

\* worker i works on its job: lstat, cache decision, hash
WorkerProcess(i) ==
    /\ call # NoCall
    /\ worker[i].pc = "work"
    /\ LET out == processJob(calc, cacheData, call.rootDir, worker[i].path, 0, ctxDone)
       IN worker' = [worker EXCEPT ![i] =
                        IF out.ok THEN [pc |-> "sendResult", rec |-> out.rec]
                        ELSE [pc |-> "sendError", err |-> out.err]]
    /\ UNCHANGED <<fsVars, cacheVars, apiVars, call, calc, ctxDone, files, sent, jobs,
                   results, errors, closed, fileInfos, collectedErrors, reported>>

\* results <- FileInfo{...}: blocks while the channel is full
WorkerSendResult(i) ==
    /\ call # NoCall
    /\ worker[i].pc = "sendResult"
    /\ Len(results) < BufferSize(calc)
    /\ results' = Append(results, worker[i].rec)
    /\ worker' = [worker EXCEPT ![i] = [pc |-> "select"]]
    /\ UNCHANGED <<fsVars, cacheVars, apiVars, call, calc, ctxDone, files, sent, jobs,
                   errors, closed, fileInfos, collectedErrors, reported>>

\* errors <- fmt.Errorf(...); continue: blocks while the channel is full
WorkerSendError(i) ==
    /\ call # NoCall
    /\ worker[i].pc = "sendError"
    /\ Len(errors) < BufferSize(calc)
    /\ errors' = Append(errors, worker[i].err)
    /\ reported' = Append(reported, worker[i].err)
    /\ worker' = [worker EXCEPT ![i] = [pc |-> "select"]]
    /\ UNCHANGED <<fsVars, cacheVars, apiVars, call, calc, ctxDone, files, sent, jobs,
                   results, closed, fileInfos, collectedErrors>>

\* wg.Wait(); close(results); close(errors)
CloseResults ==
    /\ call # NoCall
    /\ \A i \in DOMAIN worker : worker[i].pc = "exit"
    /\ "results" \notin closed
    /\ closed' = closed \cup {"results"}
    /\ UNCHANGED <<fsVars, cacheVars, apiVars, call, calc, ctxDone, files, sent, jobs,
                   results, errors, worker, fileInfos, collectedErrors, reported>>

CloseErrors ==
    /\ call # NoCall
    /\ "results" \in closed
    /\ "errors" \notin closed
    /\ closed' = closed \cup {"errors"}
    /\ UNCHANGED <<fsVars, cacheVars, apiVars, call, calc, ctxDone, files, sent, jobs,
                   results, errors, worker, fileInfos, collectedErrors, reported>>

\* for result := range results
CollectResult ==
    /\ call # NoCall
    /\ results # <<>>
    /\ fileInfos' = Append(fileInfos, Head(results))
    /\ results' = Tail(results)
    /\ UNCHANGED <<fsVars, cacheVars, apiVars, call, calc, ctxDone, files, sent, jobs,
                   errors, closed, worker, collectedErrors, reported>>

\* for err := range errors, entered when results is closed and drained
CollectError ==
    /\ call # NoCall
    /\ "results" \in closed
    /\ results = <<>>
    /\ errors # <<>>
    /\ collectedErrors' = Append(collectedErrors, Head(errors))
    /\ errors' = Tail(errors)
    /\ UNCHANGED <<fsVars, cacheVars, apiVars, call, calc, ctxDone, files, sent, jobs,
                   results, closed, worker, fileInfos, reported>>

\* a collector that returns as soon as both channels are empty, without
\* waiting for the workers to finish
ReturnEarly ==
    /\ call # NoCall
    /\ results = <<>>
    /\ errors = <<>>
    /\ ret' = ReturnOf(call.name, call.excludes,
                       CalculateDirectoryReturn(
                           calculateFileHashesReturn(fileInfos, collectedErrors)),
                       ctxDone, fileInfos, reported, files)
    /\ call' = NoCall
    /\ calc' = NewCalculator(1)
    /\ ctxDone' = FALSE
    /\ files' = <<>>
    /\ sent' = 0
    /\ jobs' = <<>>
    /\ results' = <<>>
    /\ errors' = <<>>
    /\ closed' = {}
    /\ worker' = <<>>
    /\ fileInfos' = <<>>
    /\ collectedErrors' = <<>>
    /\ reported' = <<>>
    /\ UNCHANGED <<fsVars, cacheVars, manifest, baseline, edited, manifestFile, saveVars, lockVars>>

\* both loops are over: calculateFileHashes, CalculateDirectory and the API
\* call return
Return ==
    /\ call # NoCall
    /\ "results" \in closed
    /\ results = <<>>
    /\ "errors" \in closed
    /\ errors = <<>>
    /\ ret' = ReturnOf(call.name, call.excludes,
                       CalculateDirectoryReturn(
                           calculateFileHashesReturn(fileInfos, collectedErrors)),
                       ctxDone, fileInfos, reported, files)
    /\ call' = NoCall
    /\ calc' = NewCalculator(1)
    /\ ctxDone' = FALSE
    /\ files' = <<>>
    /\ sent' = 0
    /\ jobs' = <<>>
    /\ results' = <<>>
    /\ errors' = <<>>
    /\ closed' = {}
    /\ worker' = <<>>
    /\ fileInfos' = <<>>
    /\ collectedErrors' = <<>>
    /\ reported' = <<>>
    /\ UNCHANGED <<fsVars, cacheVars, manifest, baseline, edited, manifestFile, saveVars, lockVars>>

\* a step of one of the goroutines of the running call
PoolStep ==
    \/ SendJob
    \/ SenderCancelled
    \/ SenderDone
    \/ \E i \in DOMAIN worker : WorkerCancelled(i)
    \/ \E i \in DOMAIN worker : WorkerReceive(i)
    \/ \E i \in DOMAIN worker : WorkerJobsClosed(i)
    \/ \E i \in DOMAIN worker : WorkerProcess(i)
    \/ \E i \in DOMAIN worker : WorkerSendResult(i)
    \/ \E i \in DOMAIN worker : WorkerSendError(i)
    \/ CloseResults
    \/ CloseErrors
    \/ CollectResult
    \/ CollectError
    \/ Return

Next ==
    \/ \E q \in DOMAIN PoolFaults : InjectFault(q, PoolFaults[q])
    \/ \E d \in TargetDirs, w \in 1..MaxWorkers, b \in {0, 1024}, e \in PoolExcludes :
          StartGenerate(d, w, b, e)
    \/ \E d \in TargetDirs, w \in 1..MaxWorkers, b \in {0, 1024}, e \in CallerExcludes :
          StartVerify(d, w, b, e)
    \/ Cancel
    \/ PoolStep

Spec == Init /\ [][Next]_vars

(***************************************************************************)
(* Properties of the worker pool                                          *)
(***************************************************************************)
\* a call has returned through the pool (or failed in the walk)
Returned == ret.op \in {"generate", "verify"}

\* the record of a walked path as a function of the tree alone
RecordOf(rel) ==
    FileInfo(rel,
             IF tree[rel].kind = "symlink" THEN SHA256("symlink:" \o tree[rel].data)
             ELSE SHA256(tree[rel].data),
             LstatSize(tree, rel), meta[rel].mtime, tree[rel].kind = "symlink",
             IF tree[rel].kind = "symlink" THEN tree[rel].data ELSE "")

\* the relative paths the walk collects under an exclude list
WalkedPaths(excludes) ==
    LET rels == walk(tree, ".", excludes) IN {rels[i] : i \in 1..Len(rels)}

\* the tree is as it was when the manifest was generated, nothing fails
TreeIntact ==
    /\ fault = NoFault
    /\ PathsOf(manifest.Files) = WalkedPaths(manifest.Excludes)
    /\ \A i \in 1..Len(manifest.Files) :
          manifest.Files[i] = RecordOf(manifest.Files[i].Path)

\* the call in progress can take no step
Stuck == call # NoCall /\ ~ENABLED PoolStep

\* C5: a run whose context is cancelled before every walked file has a
\* record returns an error and neither Result nor manifest; no run returns a
\* nil error with records that omit a walked file.
C5_CancelledRunFails ==
    Returned =>
       /\ ret.cancelled /\ Len(ret.collected) < Len(ret.walked)
          => /\ ret.current.err # NilError
             /\ ret.manifest = NoManifest
       /\ ret.current.err = NilError
          => PathsOf(ret.current.files) = WalkedPaths(ret.excludes)

\* C6: a verification whose context is cancelled while the tree is intact
\* does not return "integrity check failed".
C6_CancelNotCorruption ==
    ret.op = "verify" /\ ret.cancelled /\ TreeIntact
       => ret.err.kind # "integrity check failed"

\* C7: when a worker fails on a walked file, CalculateDirectory returns the
\* first error a worker reported and no Result, Generate returns no
\* manifest, and the run does return: without cancellation it is never
\* stuck with a failure in hand.
C7_FailureAbortsRun ==
    /\ Returned /\ ret.reported # <<>>
       => /\ ret.current = [files |-> <<>>,
                            err |-> CalcError("failed to calculate file hashes",
                                              ret.reported[1])]
          /\ ret.manifest = NoManifest
          /\ ret.err # NilError
    /\ ~ctxDone /\ (reported # <<>> \/ \E i \in DOMAIN worker : worker[i].pc = "sendError")
       => ~Stuck

\* the part of C7 about returned runs alone
FailureNeverOmitted ==
    Returned /\ ret.reported # <<>>
       => /\ ret.current = [files |-> <<>>,
                            err |-> CalcError("failed to calculate file hashes",
                                              ret.reported[1])]
          /\ ret.manifest = NoManifest
          /\ ret.err # NilError

\* C8: a run that is not cancelled and returns a Result returns, for every
\* worker count and every interleaving, the records of the walked paths in
\* ascending order of path, each path once: a sequence fixed by the tree and
\* the exclude list; a generated manifest carries that sequence.
C8_Deterministic ==
    Returned /\ ~ret.cancelled /\ ret.current.err = NilError
       => LET result == ret.current.files
          IN /\ \A i \in 1..Len(result), j \in 1..Len(result) :
                   i < j => StrLess(result[i].Path, result[j].Path)
             /\ PathsOf(result) = WalkedPaths(ret.excludes)
             /\ \A i \in 1..Len(result) : result[i] = RecordOf(result[i].Path)
             /\ ret.op = "generate"
                => /\ ret.manifest.Files = result
                   /\ ret.manifest.FileCount = Len(result)
                   /\ ret.manifest.Excludes = ret.excludes

\* C8 witness: two workers, three records collected in an order that is not
\* the order of the result
C8_Witness ==
    /\ Returned /\ ~ret.cancelled /\ ret.current.err = NilError
    /\ ret.op = "generate"
    /\ Len(ret.current.files) = 3
    /\ ret.collected # ret.current.files

(***************************************************************************)
(* Verification with the metadata cache.  The entry points run under a     *)
(* context that is never cancelled; cacheFile is the document at the cache *)
(* path, which other processes can rewrite; cacheData is v.data of the     *)
(* verifier of the last call until its caller drops it.                    *)
(***************************************************************************)
MaxTime == 1

\* EnableMetadataCache that keeps a document older than the manifest
EnableMetadataCacheKeepsStale(file, manifestTime, t) ==
    SetManifestTime(Load(file, t).data, manifestTime)

\* Calculator.EnableMetadataCache: the document in memory afterwards (the
\* error of Load is printed and dropped, the method returns nil)
EnableMetadataCache(file, manifestTime, t) ==
    LET loaded == Load(file, t)
        data == SetManifestTime(loaded.data, manifestTime)
    IN IF ~IsValidForManifest(data, manifestTime) THEN Clear(t) ELSE data

\* Calculator.UpdateCacheForFiles: UpdateMetadata for every record that is
\* not a symlink, keyed by filepath.Join(rootDir, file.Path)
RECURSIVE UpdateCacheForFiles(_, _, _, _)
UpdateCacheForFiles(data, rootDir, fileList, t) ==
    IF fileList = <<>> THEN data
    ELSE LET file == Head(fileList)
             next == IF ~file.IsSymlink
                     THEN UpdateMetadata(data, JoinPath(rootDir, file.Path), t)
                     ELSE data
         IN UpdateCacheForFiles(next, rootDir, Tail(fileList), t)

\* the relative paths UpdateCacheForFiles hands to UpdateMetadata
UpdateMetadataCalls(fileList) ==
    {fileList[i].Path : i \in {j \in 1..Len(fileList) : ~fileList[j].IsSymlink}}

\* the end of VerifyWithCache that updates and saves whatever err is
persistAlways(err, file, data, rootDir, fileList, t) ==
    [data |-> Save(UpdateCacheForFiles(data, rootDir, fileList, t)),
     file |-> Save(UpdateCacheForFiles(data, rootDir, fileList, t))]

\* the end of VerifyWithCache: update and save only when err == nil.  Yields
\* the document in memory and the document at the cache path.
persistAfterVerify(err, file, data, rootDir, fileList, t) ==
    IF err = NilError
    THEN [data |-> Save(UpdateCacheForFiles(data, rootDir, fileList, t)),
          file |-> Save(UpdateCacheForFiles(data, rootDir, fileList, t))]
    ELSE [data |-> data, file |-> file]

\* the body shared by VerifyWithCache and VerifyWithCacheAndRateLimit
verifyCached(entry, calculator, targetDir, verifyProbability, rnd, callerExcludes) ==
    /\ manifest # NoManifest
    /\ ret = NoReturn
    /\ LET manifestTime == ParseRFC3339(manifest.GeneratedAt)
           data == EnableMetadataCache(cacheFile, manifestTime, now)
           c == SetManifestHashes(
                    SetVerifyProbability([calculator EXCEPT !.cache = TRUE],
                                         verifyProbability),
                    manifest.Files)
           excludes == verifyExcludes(manifest, callerExcludes)
       IN \E run \in CalculateDirectoryRuns(c, data, targetDir, excludes, rnd) :
             LET err == verifyResult(manifest.Files, run)
                 after == persistAfterVerify(err, cacheFile, data, targetDir,
                                             manifest.Files, now)
             IN /\ cacheData' = after.data
                /\ cacheFile' = after.file
                /\ ret' = [op |-> "verify", entry |-> entry, err |-> err,
                           excludes |-> excludes, caller |-> callerExcludes,
                           current |-> run, fileBefore |-> cacheFile,
                           dataBefore |-> data, calculator |-> c,
                           target |-> targetDir, rnd |-> rnd,
                           probability |-> verifyProbability,
                           updated |-> IF err = NilError
                                       THEN UpdateMetadataCalls(manifest.Files)
                                       ELSE {}]
    /\ UNCHANGED <<fsVars, manifest, baseline, edited, manifestFile, saveVars, lockVars, poolVars>>

VerifyWithCache(targetDir, numWorkers, verifyProbability, rnd, callerExcludes) ==
    verifyCached("VerifyWithCache", NewCalculator(numWorkers), targetDir,
                 verifyProbability, rnd, callerExcludes)

VerifyWithCacheAndRateLimit(targetDir, numWorkers, bytesPerSec, verifyProbability, rnd, callerExcludes) ==
    verifyCached("VerifyWithCacheAndRateLimit",
                 NewCalculatorWithRateLimit(numWorkers, bytesPerSec), targetDir,
                 verifyProbability, rnd, callerExcludes)

\* MetadataVerifier.Load called on a verifier of the cache path
LoadCache ==
    /\ ret = NoReturn
    /\ LET loaded == Load(cacheFile, now)
       IN /\ cacheData' = loaded.data
          /\ ret' = [op |-> "load", err |-> loaded.err, file |-> cacheFile]
    /\ UNCHANGED <<fsVars, cacheFile, manifest, baseline, edited, manifestFile, saveVars, lockVars, poolVars>>

\* the caller is done with the returned value and its calculator
Discard ==
    /\ ret # NoReturn
    /\ ret' = NoReturn
    /\ cacheData' = NilCache
    /\ UNCHANGED <<fsVars, cacheFile, manifest, baseline, edited, manifestFile, saveVars, lockVars, poolVars>>

Tick ==
    /\ now < MaxTime
    /\ now' = now + 1
    /\ UNCHANGED <<tree, meta, fault, cacheVars, apiVars, poolVars>>

\* the cache path holds a parsed document
IsDocument(file) == file # NoFile /\ file # Malformed

\* a document written by hand for the present files of the manifest
ForgedDocument == UpdateCacheForFiles(MetadataCache(now), RealRoot, manifest.Files, now)

\* the document a run saved before the manifest in hand was generated: its
\* created_at lies before the generation time
StaleDocument == Save([ForgedDocument EXCEPT !.CreatedAt = ZeroTime])

\* what another process can leave at the cache path: nothing, bytes that do
\* not parse, a hand-written document without cache_hash or with the hash
\* of another document, the saved document of an earlier deployment,
\* the present document with its entries or its cache_hash removed
TamperedDocuments ==
    {NoFile, Malformed}
      \cup (IF manifest # NoManifest
            THEN {[ForgedDocument EXCEPT !.CacheHash = h] :
                     h \in {<<>>, CacheDigest(MetadataCache(ZeroTime))}}
                   \cup {StaleDocument}
            ELSE {})
      \cup (IF IsDocument(cacheFile)
            THEN {[cacheFile EXCEPT !.Files = <<>>], [cacheFile EXCEPT !.CacheHash = <<>>]}
            ELSE {})

TamperCache(doc) ==
    /\ manifest # NoManifest
    /\ doc # cacheFile
    /\ cacheFile' = doc
    /\ UNCHANGED <<fsVars, cacheData, apiVars, poolVars>>

VerifyProbabilities == {-50, 50, 150}
RandDraws == {[q \in Paths |-> r] : r \in {25, 75}}

\* the draws that can make a difference under a verify probability: none
\* when it clamps to 0 or to 100 percent
DrawChoices(p) == IF 0 < p /\ p < 100 THEN RandDraws ELSE {NoDraws}

\* what Verify can return for the manifest and the tree in hand
VerifyOutcomes(targetDir, numWorkers) ==
    CalculateDirectoryRuns(NewCalculator(numWorkers), NilCache, targetDir,
                           manifest.Excludes, NoDraws)

\* what Verify returns in the present state, by target directory and
\* worker count
PlainOutcomes ==
    [d \in TargetDirs, w \in {1, MaxWorkers} |->
        {verifyResult(manifest.Files, run) : run \in VerifyOutcomes(d, w)}]

\* what VerifyWithCache returns in the present state under verify
\* probability p, by target directory and random draws
CachedOutcomes(p) ==
    LET c == SetManifestHashes(
                 SetVerifyProbability([NewCalculator(MaxWorkers) EXCEPT !.cache = TRUE], p),
                 manifest.Files)
        data == EnableMetadataCache(cacheFile, ParseRFC3339(manifest.GeneratedAt), now)
    IN [d \in TargetDirs, r \in DrawChoices(p) |->
           {verifyResult(manifest.Files, run) :
               run \in CalculateDirectoryRuns(c, data, d, manifest.Excludes, r)}]

\* os.Chtimes, os.Chmod: the times of a file change, its bytes do not.  The
\* step notes what every verification entry point returned just before it.
Touch(path, t) ==
    /\ manifest # NoManifest
    /\ Exists(tree, path)
    /\ meta[path] # [mtime |-> t, ctime |-> t]
    /\ meta' = [meta EXCEPT ![path] = [mtime |-> t, ctime |-> t]]
    /\ ret' = [op |-> "touch", path |-> path, plain |-> PlainOutcomes,
               cached |-> [p \in VerifyProbabilities |-> CachedOutcomes(p)]]
    /\ UNCHANGED <<tree, fault, now, cacheVars, manifest, baseline, edited, manifestFile, saveVars, lockVars, poolVars>>

InitCache ==
    /\ tree = PoolTree
    /\ meta = [q \in Paths |-> [mtime |-> 0, ctime |-> 0]]
    /\ fault = NoFault
    /\ now = 0
    /\ cacheData = NilCache
    /\ cacheFile = NoFile
    /\ manifest = NoManifest
    /\ ret = NoReturn
    /\ baseline = tree
    /\ edited = FALSE
    /\ manifestFile = NoManifestFile
    /\ cacheDir = NoCacheDir
    /\ saving = NoSaving
    /\ mu = Unlocked
    /\ goroutine = NoGoroutines
    /\ PoolIdle

NextCache ==
    \/ \E d \in TargetDirs, w \in {1, MaxWorkers} : Generate(d, w, <<"*.log">>)
    \/ Discard
    \/ ret = NoReturn /\ Tick
    \/ ret = NoReturn /\ \E b \in {"v1", "v2"} : WriteFile("a", b, now)
    \/ ret = NoReturn /\ Touch("a", now)
    \/ ret = NoReturn /\ fault = NoFault /\ \E q \in {"a", "."} : InjectFault(q, "io")
    \/ ret = NoReturn /\ \E doc \in TamperedDocuments : TamperCache(doc)
    \/ LoadCache
    \/ \E d \in TargetDirs, w \in {1, MaxWorkers}, e \in CallerExcludes : Verify(d, w, e)
    \/ \E d \in TargetDirs, w \in {1, MaxWorkers}, e \in CallerExcludes :
          VerifyWithRateLimit(d, w, 1024, e)
    \/ \E d \in TargetDirs, p \in VerifyProbabilities, e \in CallerExcludes :
          \E r \in DrawChoices(p) : VerifyWithCache(d, MaxWorkers, p, r, e)
    \/ \E d \in TargetDirs, p \in VerifyProbabilities, e \in CallerExcludes :
          \E r \in DrawChoices(p) : VerifyWithCacheAndRateLimit(d, MaxWorkers, 1024, p, r, e)

SpecCache == InitCache /\ [][NextCache]_vars

(***************************************************************************)
(* Properties of verification with the cache                              *)
(***************************************************************************)
\* one of the two entry points with a cache has returned
CachedEntry ==
    /\ ret.op = "verify"
    /\ ret.entry \in {"VerifyWithCache", "VerifyWithCacheAndRateLimit"}

\* C3: each of the four verification entry points hands the exclude list of
\* the manifest to CalculateDirectory and walks the tree with it, whatever
\* list the caller holds.
C3_ManifestExcludesOnly ==
    ret.op = "verify" =>
       /\ ret.entry \in {"Verify", "VerifyWithRateLimit", "VerifyWithCache",
                         "VerifyWithCacheAndRateLimit"}
       /\ ret.excludes = manifest.Excludes
       /\ ret.current.err = NilError
          => PathsOf(ret.current.files) = WalkedPaths(manifest.Excludes)

\* C3 witness: a verification with cache and rate limit returned while its
\* caller held a list under which the walk would have collected other paths
C3_Witness ==
    /\ ret.op = "verify"
    /\ ret.entry = "VerifyWithCacheAndRateLimit"
    /\ ret.current.err = NilError
    /\ ret.caller # manifest.Excludes
    /\ WalkedPaths(ret.caller) # WalkedPaths(manifest.Excludes)
    /\ PathsOf(ret.current.files) = WalkedPaths(manifest.Excludes)

\* C9: when a verification with cache returns an error, the document at the
\* cache path is the one found before the run and the document in memory
\* has gained or changed no entry.
C9_CacheOnlyOnSuccess ==
    CachedEntry /\ ret.err # NilError
       => /\ cacheFile = ret.fileBefore
          /\ cacheData = ret.dataBefore

\* C9 witness: an integrity failure returned by a verification with cache
\* that found a saved document with entries at the cache path
C9_Witness ==
    /\ CachedEntry
    /\ ret.err.kind = "integrity check failed"
    /\ IsDocument(ret.fileBefore)
    /\ ret.fileBefore.Files # <<>>
    /\ ret.fileBefore.CacheHash = CacheDigest(ret.fileBefore)
    /\ cacheFile = ret.fileBefore

\* a verification with cache failed in the hashing of a file, or in the walk
HashErrorReturned ==
    /\ CachedEntry
    /\ ret.err.kind = "failed to calculate current state"
    /\ ret.err.cause.kind = "failed to calculate file hashes"
WalkErrorReturned ==
    /\ CachedEntry
    /\ ret.err.kind = "failed to calculate current state"
    /\ ret.err.cause.kind = "failed to collect files"

\* C10: Load keeps entries read from the cache path only when the stored
\* cache_hash is the hash recomputed over the document with cache_hash
\* cleared; for every document whose stored hash differs from the recomputed
\* one, Load leaves a fresh empty document and returns an error.
C10_LoadChecksHash ==
    ret.op = "load" /\ IsDocument(ret.file)
       => /\ cacheData.Files # <<>> => ret.file.CacheHash = CacheDigest(ret.file)
          /\ ret.file.CacheHash # CacheDigest(ret.file)
             => /\ cacheData = MetadataCache(now)
                /\ ret.err # "nil"

\* the cache path held a document as Save writes it
SavedDocument(file) == IsDocument(file) /\ file.CacheHash = CacheDigest(file)

\* C11: when EnableMetadataCache is given a manifest time strictly later
\* than the created_at of the loaded document, the cache in memory holds no
\* entry, its created_at is the present time and CheckMetadata is false for
\* every path; when created_at >= manifest time the loaded entries are kept.
C11_StaleCacheCleared ==
    CachedEntry /\ SavedDocument(ret.fileBefore)
       => LET manifestTime == ParseRFC3339(manifest.GeneratedAt)
          IN /\ manifestTime > ret.fileBefore.CreatedAt
                => /\ ret.dataBefore.Files = <<>>
                   /\ ret.dataBefore.CreatedAt = now
                   /\ \A d \in TargetDirs, q \in Paths :
                         ~CheckMetadata(ret.dataBefore, JoinPath(d, q))
             /\ manifestTime <= ret.fileBefore.CreatedAt
                => /\ ret.dataBefore.Files = ret.fileBefore.Files
                   /\ ret.dataBefore.CreatedAt = ret.fileBefore.CreatedAt

\* C11 witness: a saved document with entries, older than the manifest, was
\* found; the run started from an empty cache, succeeded, and its
\* UpdateMetadata calls filled the cache again
C11_Witness ==
    /\ CachedEntry /\ SavedDocument(ret.fileBefore)
    /\ ret.fileBefore.Files # <<>>
    /\ ParseRFC3339(manifest.GeneratedAt) > ret.fileBefore.CreatedAt
    /\ ret.dataBefore.Files = <<>>
    /\ ret.err = NilError
    /\ \E q \in Paths : CheckMetadata(cacheData, JoinPath(ret.target, q))

\* C12: with the cache enabled and a verify probability of 1.0 or more, no
\* worker substitutes the reference hash: every record carries the hash of
\* the bytes read, and VerifyWithCache returns what Verify returns on the
\* same manifest and tree, whatever the cache holds.
C12_AlwaysRehashEqualsVerify ==
    CachedEntry /\ ret.probability >= 100
       => /\ ret.current \in VerifyOutcomes(ret.target, ret.calculator.numWorkers)
          /\ ret.err \in {verifyResult(manifest.Files, run) :
                             run \in VerifyOutcomes(ret.target, ret.calculator.numWorkers)}
          /\ ret.current.err = NilError
             => \A i \in 1..Len(ret.current.files) :
                   ret.current.files[i] = RecordOf(ret.current.files[i].Path)

\* C12 witness: the cache held an entry matching the metadata of a file
\* whose bytes are not those of the manifest; the file was hashed and the
\* change reported
C12_Witness ==
    /\ CachedEntry /\ ret.probability >= 100
    /\ \E i \in 1..Len(manifest.Files) :
          /\ CheckMetadata(ret.dataBefore, JoinPath(RealRoot, manifest.Files[i].Path))
          /\ manifest.Files[i].Hash # SHA256(tree[manifest.Files[i].Path].data)
          /\ ret.err.kind = "integrity check failed"
          /\ CopiesIn(HashFinding(manifest.Files[i].Path), ret.err.issues) = 1

\* the cache path holds bytes that do not parse, or a document whose stored
\* cache_hash is not the hash recomputed over it
Corrupt(file) ==
    \/ file = Malformed
    \/ IsDocument(file) /\ file.CacheHash # CacheDigest(file)

\* what the run of ret returns when no file is at the cache path
OutcomesWithoutCacheFile ==
    {verifyResult(manifest.Files, run) :
        run \in CalculateDirectoryRuns(
                    ret.calculator,
                    EnableMetadataCache(NoFile, ParseRFC3339(manifest.GeneratedAt), now),
                    ret.target, manifest.Excludes, ret.rnd)}

\* C13: a cache file that does not parse or whose cache_hash does not match
\* makes a verification with cache neither fail on its own nor change its
\* findings: the run continues with an empty cache and returns what it
\* returns when no cache file is present.
C13_CorruptionNonFatal ==
    CachedEntry /\ Corrupt(ret.fileBefore)
       => /\ ret.dataBefore.Files = <<>>
          /\ ret.err \in OutcomesWithoutCacheFile

\* the part of C13 about the files Load rejects
RejectedCacheNonFatal ==
    CachedEntry /\ Load(ret.fileBefore, now).err # "nil"
       => /\ ret.dataBefore.Files = <<>>
          /\ ret.err \in OutcomesWithoutCacheFile
RejectedCacheSeen ==
    /\ CachedEntry /\ Load(ret.fileBefore, now).err # "nil"
    /\ IsDocument(ret.fileBefore) /\ ret.fileBefore.Files # <<>>
    /\ ret.err.kind = "integrity check failed"

(***************************************************************************)
(* Properties of the findings (SpecFlow)                                   *)
(***************************************************************************)
\* the findings of the verification that returned
Issues == IF ret.err = NilError THEN EmptyBag ELSE ret.err.issues

\* the record of path q in a list of records
RecordAt(fileList, q) ==
    fileList[CHOOSE i \in 1..Len(fileList) : fileList[i].Path = q]

\* the paths manifest and recomputed result share
SharedPaths == PathsOf(manifest.Files) \cap PathsOf(ret.current.files)

\* C14: verification emits "deleted: p" exactly once for every path of the
\* manifest that the recomputed result lacks and for no other path, and
\* "added: p" exactly once for every path of the recomputed result that the
\* manifest lacks and for no other path.
C14_MissingAndExtraExact ==
    Verified =>
       LET M == PathsOf(manifest.Files)
           C == PathsOf(ret.current.files)
       IN /\ \A q \in Paths :
                /\ CopiesIn(DeletedFinding(q), Issues) = IF q \in M \ C THEN 1 ELSE 0
                /\ CopiesIn(AddedFinding(q), Issues) = IF q \in C \ M THEN 1 ELSE 0
          /\ \A line \in BagToSet(Issues) :
                /\ HasPrefix(line, "deleted: ") => line \in {DeletedFinding(q) : q \in M \ C}
                /\ HasPrefix(line, "added: ") => line \in {AddedFinding(q) : q \in C \ M}

\* C14 witness: a verification found a path of the manifest missing, another
\* path new, and a third one on both sides
C14_Witness ==
    /\ Verified
    /\ PathsOf(manifest.Files) \ PathsOf(ret.current.files) # {}
    /\ PathsOf(ret.current.files) \ PathsOf(manifest.Files) # {}
    /\ SharedPaths # {}
    /\ BagCardinality(Issues) >= 2

\* C15: every path yields at most one finding, chosen in the order type,
\* hash, size: with equal type and differing hash the finding is
\* "modified: p (hash)" and no size finding is added when the size differs
\* as well.
C15_OneFindingPerPath ==
    Verified =>
       /\ \A q \in Paths : FindingsAbout(Issues, q) <= 1
       /\ \A q \in SharedPaths :
             LET m == RecordAt(manifest.Files, q)
                 c == RecordAt(ret.current.files, q)
             IN /\ m.IsSymlink # c.IsSymlink
                   => CopiesIn(TypeFinding(q, m.IsSymlink, c.IsSymlink), Issues) = 1
                /\ m.IsSymlink = c.IsSymlink /\ m.Hash # c.Hash
                   => /\ CopiesIn(HashFinding(q), Issues) = 1
                      /\ CopiesIn(SizeFinding(q, m.Size, c.Size), Issues) = 0

\* C15 witness: a path of equal type whose hash and size both differ
C15_Witness ==
    /\ Verified
    /\ \E q \in SharedPaths :
          LET m == RecordAt(manifest.Files, q)
              c == RecordAt(ret.current.files, q)
          IN /\ m.IsSymlink = c.IsSymlink
             /\ m.Hash # c.Hash
             /\ m.Size # c.Size
             /\ FindingsAbout(Issues, q) = 1

DirectoryRuns(targetDir, numWorkers, excludes) ==
    CalculateDirectoryRuns(NewCalculator(numWorkers), NilCache, targetDir, excludes, NoDraws)

\* C17: CalculateDirectory on a symlink to the target directory returns the
\* records it returns on the directory itself, and a manifest generated
\* through either path verifies through either path while the tree is as
\* it was.
C17_TopLevelSymlinkTransparent ==
    /\ manifest = NoManifest
       => \A w \in 1..MaxWorkers, e \in ExcludeLists :
             DirectoryRuns(LinkRoot, w, e) = DirectoryRuns(RealRoot, w, e)
    /\ Verified
       => \A d \in TargetDirs :
             \E w \in 1..MaxWorkers : ret.current \in DirectoryRuns(d, w, manifest.Excludes)
    /\ Verified /\ ~edited /\ tree = baseline => ret.err = NilError

\* C17 witness: the manifest in hand is the one Generate produces on the
\* directory itself, and a verification through the symlink to it succeeded
\* on the unchanged tree
C17_Witness ==
    /\ Verified /\ ~edited /\ tree = baseline
    /\ ret.target = LinkRoot
    /\ Len(manifest.Files) >= 2
    /\ \E run \in DirectoryRuns(RealRoot, 1, manifest.Excludes) :
          manifest.Files = run.files
    /\ ret.err = NilError

\* the records of a list whose path is q
RecordsAt(fileList, q) == {i \in 1..Len(fileList) : fileList[i].Path = q}

\* a symlink found at q, in the root directory, that no pattern excludes
TrackedLink(q) ==
    /\ tree[q].kind = "symlink"
    /\ Dir(q) = "."
    /\ ~matchExcludePatterns(q, manifest.Excludes)

\* C18: a symlink below the root is not followed: it yields exactly one
\* record, with is_symlink set, its target as link_target, the hash of
\* "symlink:" + target and the size of the link, whether the target is a
\* directory, a file or missing; no record lies beneath a symlink.
C18_SymlinksNotFollowed ==
    Verified =>
       \A q \in Paths :
          /\ tree[q].kind = "symlink"
             => \A i \in 1..Len(ret.current.files) :
                   ~HasPrefix(ret.current.files[i].Path, q \o Separator)
          /\ TrackedLink(q)
             => /\ Cardinality(RecordsAt(ret.current.files, q)) = 1
                /\ RecordAt(ret.current.files, q) =
                      FileInfo(q, SHA256("symlink:" \o tree[q].data), Len(tree[q].data),
                               meta[q].mtime, TRUE, tree[q].data)

\* C18 witness: a tracked symlink to a directory that holds a file, and in
\* the same result the record of that file under the directory only
C18_Witness ==
    /\ Verified
    /\ \E q \in Paths :
          /\ TrackedLink(q)
          /\ \E p \in Paths :
                /\ Exists(tree, p)
                /\ HasPrefix(p, tree[q].data \o Separator)
                /\ RecordsAt(ret.current.files, p) # {}
          /\ Cardinality(RecordsAt(ret.current.files, q)) = 1
          /\ RecordAt(ret.current.files, q).IsSymlink

\* a tracked symlink to a regular file whose bytes are not the link descriptor
LinkToFileSeen ==
    /\ Verified
    /\ \E q \in Paths :
          /\ TrackedLink(q)
          /\ tree[q].data \in Paths
          /\ tree[tree[q].data].kind = "file"
          /\ RecordAt(ret.current.files, q).Hash # SHA256(tree[tree[q].data].data)
          /\ RecordAt(ret.current.files, q).Size # Len(tree[tree[q].data].data)

(***************************************************************************)
(* Properties of the comparison by content (SpecCache)                     *)
(***************************************************************************)
\* the object at q has the type, bytes and size of its record in the manifest
MatchesManifest(q) ==
    LET m == RecordAt(manifest.Files, q)
    IN /\ Exists(tree, q)
       /\ m.IsSymlink = (tree[q].kind = "symlink")
       /\ m.Hash = RecordOf(q).Hash
       /\ m.Size = LstatSize(tree, q)

\* the times of a file were changed and nothing else: every entry point
\* returns what it returned before
SameOutcomes(probabilities) ==
    /\ ret.plain = PlainOutcomes
    /\ \A p \in probabilities : ret.cached[p] = CachedOutcomes(p)

\* C19 as stated: a change of times or permissions alone changes the
\* outcome of no verification, without the cache and with it.  Stated for
\* the runs in which no I/O fails and the cache path holds nothing or a
\* document as Save wrote it.
C19_MetadataNeverMatters ==
    /\ ret.op = "touch"
    /\ fault = NoFault
    /\ cacheFile = NoFile \/ SavedDocument(cacheFile)
    => SameOutcomes(VerifyProbabilities)

\* C19 amended: a file whose type, bytes and size are those of the manifest
\* never has a finding, whatever its times and whatever the cache holds;
\* without the cache, and with it under a verify probability of 1.0, a
\* change of times alone changes the outcome of no verification.
C19_ContentOnly ==
    /\ ret.op = "verify" /\ ret.current.err = NilError
       => \A q \in SharedPaths : MatchesManifest(q) => FindingsAbout(Issues, q) = 0
    /\ ret.op = "touch" => SameOutcomes({p \in VerifyProbabilities : p >= 100})

\* C19 witness: the times of a tracked file with the bytes of the manifest
\* were changed away from those of its cache entry and of the manifest;
\* every entry point returns success as before
C19_Witness ==
    /\ ret.op = "touch"
    /\ MatchesManifest(ret.path)
    /\ SavedDocument(cacheFile)
    /\ JoinPath(RealRoot, ret.path) \in DOMAIN cacheFile.Files
    /\ cacheFile.Files[JoinPath(RealRoot, ret.path)].ModTime # meta[ret.path].mtime
    /\ RecordAt(manifest.Files, ret.path).ModTime # meta[ret.path].mtime
    /\ SameOutcomes(VerifyProbabilities)
    /\ \A d \in TargetDirs : PlainOutcomes[d, 1] = {NilError}

(***************************************************************************)
(* Manifest files: SaveToFile, SaveToWriter, LoadFromFile, LoadFromReader  *)
(* and encoding/json as they use it.  A Go string is a sequence of bytes:  *)
(* Bytes gives those of the strings a manifest of the model holds, a       *)
(* string with bytes above 0x7F being written as its Go literal.           *)
(***************************************************************************)
Bytes ==
    ("" :> <<>>) @@ ("a" :> <<97>>) @@ ("t" :> <<116>>) @@ ("b<c" :> <<98, 60, 99>>)
      @@ ("*.log" :> <<42, 46, 108, 111, 103>>)
      @@ ("d/x.log" :> <<100, 47, 120, 46, 108, 111, 103>>)
      @@ ("\\xE9" :> <<233>>) @@ ("\\xC3" :> <<195>>) @@ ("\\xC3\\xA9" :> <<195, 169>>)
      @@ ("\\xEF\\xBF\\xBD" :> <<239, 191, 189>>)

\* utf8.DecodeRuneInString on a non-empty s: the size of the rune at its
\* head, 0 for an invalid encoding (RuneError, size 1)
RuneLen(s) ==
    LET n == Len(s)
        b == s[1]
        IsCont(i) == n >= i /\ 128 <= s[i] /\ s[i] <= 191
    IN IF 0 <= b /\ b < 128 THEN 1
       ELSE IF 194 <= b /\ b <= 223
            THEN IF IsCont(2) THEN 2 ELSE 0
       ELSE IF 224 <= b /\ b <= 239
            THEN IF /\ IsCont(2) /\ IsCont(3)
                    /\ b = 224 => s[2] >= 160
                    /\ b = 237 => s[2] <= 159
                 THEN 3 ELSE 0
       ELSE IF 240 <= b /\ b <= 244
            THEN IF /\ IsCont(2) /\ IsCont(3) /\ IsCont(4)
                    /\ b = 240 => s[2] >= 144
                    /\ b = 244 => s[2] <= 143
                 THEN 4 ELSE 0
       ELSE 0

\* The text of a JSON string between its quotes: a sequence of bytes and of
\* escapes, -1 - c standing for the escape \uXXXX (or the short escape) of
\* code point c.
\* encoding/json appendString(escapeHTML = true): the control characters,
\* the quote, the backslash, < > & and U+2028, U+2029 are written as
\* escapes, a byte that is no UTF-8 as the escape of U+FFFD
RECURSIVE appendString(_)
appendString(s) ==
    IF s = <<>> THEN <<>>
    ELSE IF Head(s) \in (0..31) \cup {34, 92, 60, 62, 38}
         THEN <<-1 - Head(s)>> \o appendString(Tail(s))
    ELSE LET size == RuneLen(s)
         IN IF size = 0 THEN <<-1 - 65533>> \o appendString(Tail(s))
            ELSE IF size = 3 /\ SubSeq(s, 1, 3) \in {<<226, 128, 168>>, <<226, 128, 169>>}
                 THEN <<-1 - (8232 + (s[3] - 168))>> \o appendString(SubSeq(s, 4, Len(s)))
            ELSE SubSeq(s, 1, size) \o appendString(SubSeq(s, size + 1, Len(s)))

\* encoding/json unquote: an escape becomes the UTF-8 of its code point
\* (utf8.AppendRune, below U+10000), literal bytes that are no UTF-8 become
\* U+FFFD
RECURSIVE unquote(_)
unquote(t) ==
    LET EncodeRune(c) ==
            IF c < 128 THEN <<c>>
            ELSE IF c < 2048 THEN <<192 + (c \div 64), 128 + (c % 64)>>
            ELSE <<224 + (c \div 4096), 128 + ((c \div 64) % 64), 128 + (c % 64)>>
    IN IF t = <<>> THEN <<>>
       ELSE IF Head(t) < 0 THEN EncodeRune(-1 - Head(t)) \o unquote(Tail(t))
       ELSE LET size == RuneLen(t)
            IN IF size = 0 THEN EncodeRune(65533) \o unquote(Tail(t))
               ELSE SubSeq(t, 1, size) \o unquote(SubSeq(t, size + 1, Len(t)))

\* a string field written and read back
encodeString(s) == appendString(Bytes[s])
decodeString(t) == CHOOSE s \in DOMAIN Bytes : Bytes[s] = unquote(t)

\* json.Marshal of a hash.FileInfo: a JSON object is the function from its
\* keys to its values; omitempty leaves out false and "".  A hash is hex
\* digits, which need no escape; mod_time is written by
\* time.Time.MarshalJSON (RFC 3339 with nanoseconds) as the seconds and the
\* fraction of a second.
marshalFileInfo(f) ==
    ("path" :> encodeString(f.Path)) @@ ("hash" :> f.Hash) @@ ("size" :> f.Size)
      @@ ("mod_time" :> <<f.ModTime \div TicksPerSecond, f.ModTime % TicksPerSecond>>)
      @@ (IF f.IsSymlink THEN "is_symlink" :> TRUE ELSE <<>>)
      @@ (IF f.LinkTarget # "" THEN "link_target" :> encodeString(f.LinkTarget) ELSE <<>>)

\* json.Unmarshal into a zero hash.FileInfo: a missing key leaves the zero
\* value
unmarshalFileInfo(o) ==
    FileInfo(decodeString(o["path"]), o["hash"], o["size"],
             (o["mod_time"][1] * TicksPerSecond) + o["mod_time"][2],
             "is_symlink" \in DOMAIN o,
             IF "link_target" \in DOMAIN o THEN decodeString(o["link_target"]) ELSE "")

\* json.Marshal of a Manifest.  generated_at is RFC 3339 text and version
\* "1.0": ASCII that needs no escape.
marshalManifest(m) ==
    ("version" :> m.Version) @@ ("file_count" :> m.FileCount)
      @@ ("generated_at" :> m.GeneratedAt)
      @@ (IF m.Excludes # <<>>
          THEN "excludes" :> [i \in 1..Len(m.Excludes) |-> encodeString(m.Excludes[i])]
          ELSE <<>>)
      @@ ("files" :> [i \in 1..Len(m.Files) |-> marshalFileInfo(m.Files[i])])

unmarshalManifest(o) ==
    [Version |-> o["version"], FileCount |-> o["file_count"],
     GeneratedAt |-> o["generated_at"],
     Excludes |-> IF "excludes" \in DOMAIN o
                  THEN [i \in 1..Len(o["excludes"]) |-> decodeString(o["excludes"][i])]
                  ELSE <<>>,
     Files |-> [i \in 1..Len(o["files"]) |-> unmarshalFileInfo(o["files"][i])]]

(***************************************************************************)
(* Saving and loading manifests.  manifest is a manifest in memory,        *)
(* manifestFile what the file or buffer written last holds: the JSON       *)
(* values in it one after the other, each with or without the newline the  *)
(* Encoder appends.                                                        *)
(***************************************************************************)
\* the paths of the records, in byte order
ManifestPaths == <<"a", "b<c", "\\xC3\\xA9", "\\xE9">>

\* the records calculateFileHashes builds for a path: of a regular file and
\* of a symlink
ManifestRecords(p) ==
    {FileInfo(p, SHA256("v1"), 2, t, FALSE, "") : t \in 0..MaxTime}
      \cup {FileInfo(p, SHA256("symlink:" \o target), Len(Bytes[target]), t, TRUE, target) :
                target \in {"t", "\\xE9"}, t \in 0..MaxTime}

\* the lists of at most two records sorted by path
ManifestFileLists ==
    {<<>>} \cup UNION {{<<r>> : r \in ManifestRecords(ManifestPaths[i])} :
                         i \in DOMAIN ManifestPaths}
      \cup UNION {{<<r1, r2>> : r1 \in ManifestRecords(ManifestPaths[ij[1]]),
                                r2 \in ManifestRecords(ManifestPaths[ij[2]])} :
                     ij \in {x \in (DOMAIN ManifestPaths) \X (DOMAIN ManifestPaths) : x[1] < x[2]}}

InitManifest ==
    /\ tree = PoolTree
    /\ meta = [q \in Paths |-> [mtime |-> 0, ctime |-> 0]]
    /\ fault = NoFault
    /\ now = 0
    /\ cacheData = NilCache
    /\ cacheFile = NoFile
    /\ \E fileList \in ManifestFileLists, e \in {<<>>, <<"*.log">>, <<"\\xC3">>},
          t \in {0, TicksPerSecond} :
          manifest = Manifest(fileList, e, t)
    /\ ret = NoReturn
    /\ baseline = tree
    /\ edited = FALSE
    /\ manifestFile = NoManifestFile
    /\ cacheDir = NoCacheDir
    /\ saving = NoSaving
    /\ mu = Unlocked
    /\ goroutine = NoGoroutines
    /\ PoolIdle

\* json.MarshalIndent and os.WriteFile
SaveToFile ==
    /\ manifestFile' = [medium |-> "file",
                        data |-> <<[value |-> marshalManifest(manifest), newline |-> FALSE]>>]
    /\ ret' = [op |-> "save", entry |-> "SaveToFile", err |-> NilError]
    /\ UNCHANGED <<fsVars, cacheVars, manifest, baseline, edited, saveVars, lockVars, poolVars>>

\* json.Encoder.Encode into a buffer
SaveToWriter ==
    /\ manifestFile' = [medium |-> "buffer",
                        data |-> <<[value |-> marshalManifest(manifest), newline |-> TRUE]>>]
    /\ ret' = [op |-> "save", entry |-> "SaveToWriter", err |-> NilError]
    /\ UNCHANGED <<fsVars, cacheVars, manifest, baseline, edited, saveVars, lockVars, poolVars>>

\* os.ReadFile and json.Unmarshal, which wants the data to be one value
LoadFromFile ==
    /\ manifestFile.medium = "file"
    /\ ret' = [op |-> "load", entry |-> "LoadFromFile", data |-> manifestFile.data,
               manifest |-> IF Len(manifestFile.data) = 1
                            THEN unmarshalManifest(manifestFile.data[1].value)
                            ELSE NoManifest,
               err |-> IF Len(manifestFile.data) = 1 THEN NilError
                       ELSE [kind |-> "failed to unmarshal manifest"]]
    /\ UNCHANGED <<fsVars, cacheVars, manifest, baseline, edited, manifestFile, saveVars, lockVars, poolVars>>

\* json.Decoder.Decode of the next value of a reader: one on the file, or
\* the buffer itself, which the decoder drains
LoadFromReader ==
    /\ manifestFile.medium # "none"
    /\ ret' = [op |-> "load", entry |-> "LoadFromReader", data |-> manifestFile.data,
               manifest |-> IF manifestFile.data # <<>>
                            THEN unmarshalManifest(manifestFile.data[1].value)
                            ELSE NoManifest,
               err |-> IF manifestFile.data # <<>> THEN NilError
                       ELSE [kind |-> "failed to decode manifest: EOF"]]
    /\ manifestFile' = IF manifestFile.medium = "buffer"
                       THEN [manifestFile EXCEPT !.data = <<>>]
                       ELSE manifestFile
    /\ UNCHANGED <<fsVars, cacheVars, manifest, baseline, edited, saveVars, lockVars, poolVars>>

NextManifest ==
    \/ SaveToFile
    \/ SaveToWriter
    \/ LoadFromFile
    \/ LoadFromReader

SpecManifest == InitManifest /\ [][NextManifest]_vars

\* the manifest loaded is the manifest held in memory, field by field
SameManifest ==
    /\ ret.manifest.Version = manifest.Version
    /\ ret.manifest.GeneratedAt = manifest.GeneratedAt
    /\ ret.manifest.FileCount = manifest.FileCount
    /\ ret.manifest.Excludes = manifest.Excludes
    /\ ret.manifest.Files = manifest.Files

\* C20: a manifest saved with SaveToFile or SaveToWriter and loaded back
\* with LoadFromFile or LoadFromReader loads without error and equals the
\* manifest saved in version, generated_at, file_count, excludes and every
\* field of every file record.
C20_RoundTrip ==
    ret.op = "load" /\ ret.data # <<>> => ret.err = NilError /\ SameManifest

\* every string of the manifest is valid UTF-8
RECURSIVE ValidUTF8(_)
ValidUTF8(b) ==
    b = <<>> \/ (RuneLen(b) > 0 /\ ValidUTF8(SubSeq(b, RuneLen(b) + 1, Len(b))))
ManifestIsUTF8 ==
    /\ \A i \in 1..Len(manifest.Excludes) : ValidUTF8(Bytes[manifest.Excludes[i]])
    /\ \A i \in 1..Len(manifest.Files) :
          /\ ValidUTF8(Bytes[manifest.Files[i].Path])
          /\ ValidUTF8(Bytes[manifest.Files[i].LinkTarget])

\* the part of C20 about the manifests whose strings are valid UTF-8
RoundTripOfUTF8 ==
    ret.op = "load" /\ ret.data # <<>> /\ ManifestIsUTF8
       => ret.err = NilError /\ SameManifest
RoundTripOfUTF8Seen ==
    /\ ret.op = "load" /\ ret.data # <<>> /\ ManifestIsUTF8
    /\ \E i \in 1..Len(manifest.Files) :
          manifest.Files[i].Path = "\\xC3\\xA9" /\ manifest.Files[i].ModTime % TicksPerSecond # 0
    /\ manifest.Excludes = <<>>

(***************************************************************************)
(* Properties of the glob dialect and of the error text                    *)
(***************************************************************************)
\* C22: under the exclude pattern **/logs/* no file directly inside a
\* directory named logs, at any depth, is part of the manifest generated.
C22_StarStarDirExcludes ==
    /\ manifest # NoManifest
    /\ \E i \in 1..Len(manifest.Excludes) : manifest.Excludes[i] = "**/logs/*"
    => \A i \in 1..Len(manifest.Files) : Base(Dir(manifest.Files[i].Path)) # "logs"

(***************************************************************************)
(* The error text of a failed verification and the parser of the CLI.      *)
(* SpecReport is the sequential specification on a tree one of whose file  *)
(* names holds a line feed.                                                *)
(***************************************************************************)
ReportPaths == {"a", "b", "a\nadded: b"}

\* error.Error() of verifyWithCalculator's integrity error, the findings
\* joined in the order given: "integrity check failed:\n" + Join(issues, "\n")
RECURSIVE ErrorText(_)
ErrorText(issues) ==
    IF issues = <<>> THEN "integrity check failed:"
    ELSE ErrorText(SubSeq(issues, 1, Len(issues) - 1)) \o "\n" \o issues[Len(issues)]

\* strings.Split(s, "\n")
RECURSIVE SplitLines(_)
SplitLines(s) ==
    LET idx == {i \in 1..Len(s) : SubSeq(s, i, i) = "\n"}
    IN IF idx = {} THEN <<s>>
       ELSE LET i == CHOOSE k \in idx : \A j \in idx : k <= j
            IN <<SubSeq(s, 1, i - 1)>> \o SplitLines(SubSeq(s, i + 1, Len(s)))

\* strings.TrimSpace
RECURSIVE TrimSpace(_)
TrimSpace(s) ==
    LET space == {" ", "\t", "\n", "\r"}
    IN IF s = "" THEN s
       ELSE IF SubSeq(s, 1, 1) \in space THEN TrimSpace(SubSeq(s, 2, Len(s)))
       ELSE IF SubSeq(s, Len(s), Len(s)) \in space THEN TrimSpace(SubSeq(s, 1, Len(s) - 1))
       ELSE s

\* parseVerificationError: the entries found under each tag
parseVerificationError(errStr) ==
    LET lines == SplitLines(errStr)
        trimmed == [i \in 1..Len(lines) |-> TrimSpace(lines[i])]
        under(tag) ==
            LET tagged == SelectSeq(trimmed, LAMBDA line : HasPrefix(line, tag))
            IN [i \in 1..Len(tagged) |-> TrimSpace(TrimPrefix(tagged[i], tag))]
    IN [ModifiedFiles |-> under("modified:"), DeletedFiles |-> under("deleted:"),
        AddedFiles |-> under("added:")]

InitReport ==
    /\ tree \in {t \in [ReportPaths -> {NoEntry, RegularFile("v1")}] : t["a"] # NoEntry}
    /\ meta = [q \in ReportPaths |-> [mtime |-> 0, ctime |-> 0]]
    /\ fault = [q \in ReportPaths \cup {"."} |-> "none"]
    /\ now = 0
    /\ cacheData = NilCache
    /\ cacheFile = NoFile
    /\ manifest = NoManifest
    /\ ret = NoReturn
    /\ baseline = tree
    /\ edited = FALSE
    /\ manifestFile = NoManifestFile
    /\ cacheDir = NoCacheDir
    /\ saving = NoSaving
    /\ mu = Unlocked
    /\ goroutine = NoGoroutines
    /\ PoolIdle

NextReport ==
    \/ \E w \in 1..MaxWorkers, e \in {<<>>, <<"b">>} : Generate(RealRoot, w, e)
    \/ \E q \in ReportPaths, b \in {"v1", "v2"} : WriteFile(q, b, 0)
    \/ \E q \in ReportPaths : MakeSymlink(q, "t", 0)
    \/ \E q \in ReportPaths : Remove(q)
    \/ \E w \in 1..MaxWorkers : Verify(RealRoot, w, <<>>)
    \/ ret.op = "verify" /\ Discard

SpecReport == InitReport /\ [][NextReport]_vars

\* the orders in which the two loops over Go maps can append the findings
IssueOrders ==
    LET lines == BagToSet(ret.err.issues)
        n == BagCardinality(ret.err.issues)
    IN {order \in [1..n -> lines] :
           \A line \in lines :
              Cardinality({i \in 1..n : order[i] = line}) = CopiesIn(line, ret.err.issues)}

\* the number of findings of the returned error that carry the tag
Tagged(tag) ==
    BagCount(ret.err.issues, {line \in BagToSet(ret.err.issues) : HasPrefix(line, tag)})

\* C23: the text of a failed verification parses back into exactly one
\* entry per finding, in the category of the finding's tag, for every file
\* name a tree can hold and every order of the findings.
C23_ErrorTextParses ==
    Verified /\ ret.err.kind = "integrity check failed"
       => \A order \in IssueOrders :
             LET details == parseVerificationError(ErrorText(order))
             IN /\ Len(details.ModifiedFiles) = Tagged("modified: ")
                /\ Len(details.DeletedFiles) = Tagged("deleted: ")
                /\ Len(details.AddedFiles) = Tagged("added: ")

\* the part of C23 about the findings whose path holds no line feed
ParsesWithoutLineFeed ==
    /\ Verified /\ ret.err.kind = "integrity check failed"
    /\ \A line \in BagToSet(ret.err.issues) : ~Contains(line, "\n")
    => \A order \in IssueOrders :
          LET details == parseVerificationError(ErrorText(order))
          IN /\ Len(details.ModifiedFiles) = Tagged("modified: ")
             /\ Len(details.DeletedFiles) = Tagged("deleted: ")
             /\ Len(details.AddedFiles) = Tagged("added: ")
ParsesWithoutLineFeedSeen ==
    /\ Verified /\ ret.err.kind = "integrity check failed"
    /\ \A line \in BagToSet(ret.err.issues) : ~Contains(line, "\n")
    /\ Tagged("modified: ") = 1 /\ Tagged("deleted: ") = 1

(***************************************************************************)
(* Termination of the worker pool.  The Go scheduler runs every goroutine  *)
(* that can take a step: weak fairness on the steps of the running call.   *)
(***************************************************************************)
FairSpec == Init /\ [][Next]_vars /\ WF_vars(PoolStep)

\* C24: a call whose context is never cancelled returns: every worker
\* exits, both channels are closed and drained and the call is over,
\* whatever the worker count and whichever files fail.
C24_Terminates == [](call # NoCall => <>(call = NoCall \/ ctxDone))

\* the part of C24 about the runs in which no more files fail than the
\* errors channel holds
TerminatesWithinCapacity ==
    []((call # NoCall /\ Cardinality({q \in Paths : fault[q] # "none"}) <= BufferSize(calc))
          => <>(call = NoCall \/ ctxDone))

(***************************************************************************)
(* Which files a successful verification with cache records               *)
(***************************************************************************)
\* the regular files the workers of the returned run opened and hashed: the
\* ones without a cache hit, and the cache hits the draw did not skip
HashedInRun ==
    {q \in Paths :
        /\ Exists(tree, q)
        /\ tree[q].kind # "symlink"
        /\ ~(/\ CheckMetadata(ret.dataBefore, JoinPath(EvalSymlinks(ret.target), q))
             /\ skipHash(ret.calculator.verifyProbability, ret.rnd[q]))}

\* C25: in a verification with cache that returned nil, UpdateMetadata is
\* invoked only for regular files whose content the workers of that run
\* read and hashed and the comparison found equal to the manifest hash.
C25_UpdateOnlyHashed ==
    CachedEntry /\ ret.err = NilError
       => /\ ret.updated \subseteq HashedInRun
          /\ \A i \in 1..Len(manifest.Files) :
                manifest.Files[i].Path \in ret.updated
                   => manifest.Files[i].Hash = SHA256(tree[manifest.Files[i].Path].data)

\* in a verification with cache that returned nil, UpdateMetadata is invoked
\* for exactly the records of the manifest that are not symlinks
UpdateForManifestRecords ==
    CachedEntry /\ ret.err = NilError
       => ret.updated = {manifest.Files[i].Path :
                            i \in {j \in 1..Len(manifest.Files) : ~manifest.Files[j].IsSymlink}}

(***************************************************************************)
(* Records of regular files                                                *)
(***************************************************************************)
\* C29: every record with IsSymlink = FALSE that CalculateDirectory returned
\* to a verification has an empty LinkTarget and the SHA-256 of the bytes
\* the file holds during the run as its Hash, with or without a cache and
\* for every verify probability.
C29_RegularRecordHash ==
    ret.op = "verify" =>
       \A i \in 1..Len(ret.current.files) :
          LET rec == ret.current.files[i]
          IN ~rec.IsSymlink
                => /\ rec.LinkTarget = ""
                   /\ rec.Hash = SHA256(tree[rec.Path].data)

\* the same for the runs of a calculator without a cache
RegularRecordHashWithoutCache ==
    ret.op = "verify" /\ ~CachedEntry =>
       \A i \in 1..Len(ret.current.files) :
          LET rec == ret.current.files[i]
          IN ~rec.IsSymlink
                => /\ rec.LinkTarget = ""
                   /\ rec.Hash = SHA256(tree[rec.Path].data)

\* a run without a cache returned the record of a file rewritten since the
\* manifest was generated
RegularRecordHashWithoutCacheSeen ==
    /\ ret.op = "verify"
    /\ ~CachedEntry
    /\ \E i \in 1..Len(ret.current.files) :
          /\ ~ret.current.files[i].IsSymlink
          /\ ret.current.files[i].Hash = SHA256("v2")

(***************************************************************************)
(* Verification with cache against more than one manifest.  Every          *)
(* invocation of the command loads the manifest it verifies against from   *)
(* the manifest path, and the cache path is shared by all of them.  Every  *)
(* write to a file changes its mtime and ctime.                            *)
(***************************************************************************)
\* the process ends: the manifest and the calculator in memory are gone
Exit ==
    /\ ret = NoReturn
    /\ manifest # NoManifest
    /\ manifest' = NoManifest
    /\ cacheData' = NilCache
    /\ UNCHANGED <<fsVars, cacheFile, ret, baseline, edited, manifestFile, saveVars, lockVars, poolVars>>

\* a new process reads the manifest at the manifest path with LoadFromFile
\* and holds it
LoadManifest ==
    /\ ret = NoReturn
    /\ manifest = NoManifest
    /\ manifestFile.medium = "file"
    /\ Len(manifestFile.data) = 1
    /\ manifest' = unmarshalManifest(manifestFile.data[1].value)
    /\ UNCHANGED <<fsVars, cacheVars, ret, baseline, edited, manifestFile, saveVars, lockVars, poolVars>>

NextRollback ==
    \/ \E d \in TargetDirs : Generate(d, MaxWorkers, <<"*.log">>)
    \/ Discard
    \/ ret = NoReturn /\ Tick
    \/ ret = NoReturn /\ meta["a"].mtime # now /\ \E b \in {"v1", "v2"} : WriteFile("a", b, now)
    \/ ret = NoReturn /\ manifest # NoManifest /\ SaveToFile
    \/ Exit
    \/ LoadManifest
    \/ \E d \in TargetDirs, p \in VerifyProbabilities :
          \E r \in DrawChoices(p) : VerifyWithCache(d, MaxWorkers, p, r, <<>>)

SpecRollback == InitCache /\ [][NextRollback]_vars

\* C27: where every change of a file's content changes its metadata, a
\* VerifyWithCache with verify probability 0 against a manifest returns nil
\* only if every regular file of the manifest holds content whose SHA-256 is
\* the manifest's hash, also when the cache at the cache path was saved by
\* a successful run against another manifest whose generated_at is not
\* later than the cache's created_at.
C27_CacheManifestCoherence ==
    /\ CachedEntry
    /\ ret.calculator.verifyProbability = 0
    /\ ret.err = NilError
    => \A i \in 1..Len(manifest.Files) :
          LET rec == manifest.Files[i]
          IN ~rec.IsSymlink
                => /\ Exists(tree, rec.Path)
                   /\ tree[rec.Path].kind = "file"
                   /\ rec.Hash = SHA256(tree[rec.Path].data)

\* the same for the runs that found no cache, or a cache saved by a run
\* against the manifest in hand
CoherenceUnderOneManifest ==
    /\ CachedEntry
    /\ ret.calculator.verifyProbability = 0
    /\ ret.err = NilError
    /\ manifestFile = NoManifestFile
    => \A i \in 1..Len(manifest.Files) :
          LET rec == manifest.Files[i]
          IN ~rec.IsSymlink
                => /\ Exists(tree, rec.Path)
                   /\ tree[rec.Path].kind = "file"
                   /\ rec.Hash = SHA256(tree[rec.Path].data)

(***************************************************************************)
(* A verification with cache run by the worker pool while another process  *)
(* changes the tree.  The body of the worker loop is taken one system call *)
(* at a time: os.Lstat, CheckMetadata, os.Readlink or os.Open and read,    *)
(* and the second os.Readlink of the result.  worker[i].opened notes what  *)
(* kind of entry the path was when os.Open was called on it.  Every write  *)
(* to a regular file changes its mtime and ctime.                          *)
(***************************************************************************)
RaceTree ==
    [q \in Paths |-> IF q = "a" THEN RegularFile("v1")
                     ELSE IF q = "x.log" THEN Symlink("a") ELSE NoEntry]

InitRace ==
    /\ tree = RaceTree
    /\ meta = [q \in Paths |-> [mtime |-> 0, ctime |-> 0]]
    /\ fault = NoFault
    /\ now = 0
    /\ cacheData = NilCache
    /\ cacheFile = NoFile
    /\ \E run \in CalculateDirectoryRuns(NewCalculator(1), NilCache, RealRoot, <<>>, NoDraws) :
          manifest = Manifest(run.files, <<>>, now)
    /\ ret = NoReturn
    /\ baseline = tree
    /\ edited = FALSE
    /\ manifestFile = NoManifestFile
    /\ cacheDir = NoCacheDir
    /\ saving = NoSaving
    /\ mu = Unlocked
    /\ goroutine = NoGoroutines
    /\ PoolIdle

\* VerifyWithCache up to the start of the goroutines of CalculateDirectory
StartVerifyWithCache(targetDir, numWorkers, verifyProbability) ==
    /\ call = NoCall
    /\ manifest # NoManifest
    /\ LET resolvedDir == EvalSymlinks(targetDir)
           excludes == verifyExcludes(manifest, <<>>)
       IN /\ call' = [name |-> "VerifyWithCache", rootDir |-> resolvedDir,
                      excludes |-> excludes, target |-> targetDir]
          /\ calc' = SetManifestHashes(
                        SetVerifyProbability([NewCalculator(numWorkers) EXCEPT !.cache = TRUE],
                                             verifyProbability),
                        manifest.Files)
          /\ cacheData' = EnableMetadataCache(cacheFile, ParseRFC3339(manifest.GeneratedAt), now)
          /\ files' = collectFiles(tree, resolvedDir, excludes)
          /\ worker' = [i \in 1..numWorkers |-> [pc |-> "select"]]
          /\ ret' = NoReturn
    /\ UNCHANGED <<fsVars, cacheFile, manifest, baseline, edited, manifestFile, saveVars, lockVars, ctxDone,
                   sent, jobs, results, errors, closed, fileInfos, collectedErrors,
                   reported>>

\* info, err := os.Lstat(path)
WorkerLstat(i) ==
    /\ call # NoCall
    /\ worker[i].pc = "work"
    /\ LET path == worker[i].path
           rel == Rel(call.rootDir, path)
       IN worker' = [worker EXCEPT ![i] =
             IF LstatFails(tree, fault, rel)
             THEN [pc |-> "sendError", err |-> Failure("failed to stat", path)]
             ELSE [pc |-> "check", path |-> path,
                   info |-> [isLink |-> tree[rel].kind = "symlink",
                             size |-> LstatSize(tree, rel),
                             modTime |-> meta[rel].mtime]]]
    /\ UNCHANGED <<fsVars, cacheVars, apiVars, call, calc, ctxDone, files, sent, jobs,
                   results, errors, closed, fileInfos, collectedErrors, reported>>

\* the cache decision: CheckMetadata stats the path again; rnd is the draw
\* of rand.Float64 in percent
WorkerCheckCache(i, rnd) ==
    /\ call # NoCall
    /\ worker[i].pc = "check"
    /\ LET path == worker[i].path
           rel == Rel(call.rootDir, path)
           hit == calc.cache /\ ~worker[i].info.isLink /\ CheckMetadata(cacheData, path)
           trust == hit /\ skipHash(calc.verifyProbability, rnd)
           useRef == trust /\ calc.hasManifestHashes /\ rel \in DOMAIN calc.manifestHashes
           needHashCalculation == ~(useRef \/ (trust /\ ~calc.hasManifestHashes))
       IN worker' = [worker EXCEPT ![i] =
             IF needHashCalculation
             THEN [pc |-> "hash", path |-> path, info |-> worker[i].info]
             ELSE [pc |-> "result", path |-> path, info |-> worker[i].info,
                   fileHash |-> IF useRef THEN calc.manifestHashes[rel] ELSE "",
                   opened |-> "none"]]
    /\ UNCHANGED <<fsVars, cacheVars, apiVars, call, calc, ctxDone, files, sent, jobs,
                   results, errors, closed, fileInfos, collectedErrors, reported>>

\* os.Readlink of a path lstat found to be a symlink, hashFileWithHasher of
\* any other
WorkerHash(i) ==
    /\ call # NoCall
    /\ worker[i].pc = "hash"
    /\ LET path == worker[i].path
           rel == Rel(call.rootDir, path)
           h == hashFileWithHasher(calc, rel, ctxDone)
       IN worker' = [worker EXCEPT ![i] =
             IF worker[i].info.isLink
             THEN IF tree[rel].kind # "symlink" \/ fault[rel] = "io"
                  THEN [pc |-> "sendError", err |-> Failure("failed to read symlink", path)]
                  ELSE [pc |-> "result", path |-> path, info |-> worker[i].info,
                        fileHash |-> SHA256("symlink:" \o tree[rel].data),
                        opened |-> "none"]
             ELSE IF ~h.ok
                  THEN [pc |-> "sendError", err |-> Failure("failed to hash", path)]
                  ELSE [pc |-> "result", path |-> path, info |-> worker[i].info,
                        fileHash |-> h.hash, opened |-> tree[rel].kind]]
    /\ UNCHANGED <<fsVars, cacheVars, apiVars, call, calc, ctxDone, files, sent, jobs,
                   results, errors, closed, fileInfos, collectedErrors, reported>>

\* the FileInfo literal: for a symlink os.Readlink is called once more and
\* its error dropped
WorkerResult(i) ==
    /\ call # NoCall
    /\ worker[i].pc = "result"
    /\ LET rel == Rel(call.rootDir, worker[i].path)
           info == worker[i].info
           target == IF tree[rel].kind # "symlink" \/ fault[rel] = "io" THEN ""
                     ELSE tree[rel].data
       IN worker' = [worker EXCEPT ![i] =
             [pc |-> "sendResult",
              rec |-> FileInfo(rel, worker[i].fileHash, info.size, info.modTime,
                               info.isLink, IF info.isLink THEN target ELSE ""),
              opened |-> worker[i].opened]]
    /\ UNCHANGED <<fsVars, cacheVars, apiVars, call, calc, ctxDone, files, sent, jobs,
                   results, errors, closed, fileInfos, collectedErrors, reported>>

\* both loops are over: CalculateDirectory returns, verifyWithCalculator
\* compares, and VerifyWithCache updates and saves the cache when err == nil
ReturnVerifyWithCache ==
    /\ call # NoCall
    /\ "results" \in closed
    /\ results = <<>>
    /\ "errors" \in closed
    /\ errors = <<>>
    /\ LET run == CalculateDirectoryReturn(
                      calculateFileHashesReturn(fileInfos, collectedErrors))
           err == verifyResult(manifest.Files, run)
           after == persistAfterVerify(err, cacheFile, cacheData, call.target,
                                       manifest.Files, now)
       IN /\ cacheData' = after.data
          /\ cacheFile' = after.file
          /\ ret' = [op |-> "verify", entry |-> "VerifyWithCache", err |-> err,
                     current |-> run, cancelled |-> ctxDone,
                     fileBefore |-> cacheFile, dataBefore |-> cacheData]
    /\ call' = NoCall
    /\ calc' = NewCalculator(1)
    /\ ctxDone' = FALSE
    /\ files' = <<>>
    /\ sent' = 0
    /\ jobs' = <<>>
    /\ results' = <<>>
    /\ errors' = <<>>
    /\ closed' = {}
    /\ worker' = <<>>
    /\ fileInfos' = <<>>
    /\ collectedErrors' = <<>>
    /\ reported' = <<>>
    /\ UNCHANGED <<fsVars, manifest, baseline, edited, manifestFile, saveVars, lockVars>>

\* a step of one of the goroutines of the running verification
RaceStep ==
    \/ SendJob
    \/ SenderCancelled
    \/ SenderDone
    \/ \E i \in DOMAIN worker : WorkerCancelled(i)
    \/ \E i \in DOMAIN worker : WorkerReceive(i)
    \/ \E i \in DOMAIN worker : WorkerJobsClosed(i)
    \/ \E i \in DOMAIN worker : WorkerLstat(i)
    \/ \E i \in DOMAIN worker : WorkerCheckCache(i, 0)
    \/ \E i \in DOMAIN worker : WorkerHash(i)
    \/ \E i \in DOMAIN worker : WorkerResult(i)
    \/ \E i \in DOMAIN worker : WorkerSendResult(i)
    \/ \E i \in DOMAIN worker : WorkerSendError(i)
    \/ CloseResults
    \/ CloseErrors
    \/ CollectResult
    \/ CollectError
    \/ ReturnVerifyWithCache

NextRace ==
    \/ \E p \in {0, 100} : StartVerifyWithCache(RealRoot, 1, p)
    \/ Cancel
    \/ RaceStep
    \/ Tick
    \/ meta["a"].mtime # now /\ \E b \in {"v1", "v2"} : WriteFile("a", b, now)
    \/ meta["x.log"].mtime # now /\ WriteFile("x.log", "v1", now)
    \/ \E target \in {"a", "d"} : MakeSymlink("x.log", target, now)
    \/ Remove("x.log")

SpecRace == InitRace /\ [][NextRace]_vars

\* C30: every record with IsSymlink = TRUE that CalculateDirectory returns
\* has a non-empty LinkTarget and the SHA-256 of "symlink:" followed by that
\* same LinkTarget as its Hash, also when the link is retargeted or removed
\* while the run is in progress.
C30_SymlinkRecord ==
    ret.op = "verify" =>
       \A i \in 1..Len(ret.current.files) :
          LET rec == ret.current.files[i]
          IN rec.IsSymlink
                => /\ rec.LinkTarget # ""
                   /\ rec.Hash = SHA256("symlink:" \o rec.LinkTarget)

\* C28: a worker never calls os.Open on a path that is a symlink at that
\* moment, whatever another process does to the tree meanwhile, so no
\* record carries the hash of the content behind a symlink.
C28_NeverOpensSymlink ==
    \A i \in DOMAIN worker :
       worker[i].pc \in {"result", "sendResult"} => worker[i].opened # "symlink"

\* C26: every cache entry a run that returned nil has written holds the
\* size, mtime and ctime of a state of the file whose content was hashed
\* and found equal to the manifest hash, also when another process rewrites
\* the file between the worker's hash and the stat of UpdateMetadata: the
\* file state an entry describes holds the bytes the manifest records.
C26_CacheEntryOfVerifiedState ==
    ret.op = "verify" /\ ret.err = NilError
       => \A i \in 1..Len(manifest.Files) :
             LET rec == manifest.Files[i]
                 key == JoinPath(RealRoot, rec.Path)
             IN /\ ~rec.IsSymlink
                /\ key \in DOMAIN cacheData.Files
                /\ Exists(tree, rec.Path)
                /\ cacheData.Files[key] = MetadataEntry(key)
                => /\ tree[rec.Path].kind = "file"
                   /\ SHA256(tree[rec.Path].data) = rec.Hash

\* C21: a VerifyWithCache run whose context was cancelled while it was
\* running creates and overwrites no cache entry and does not rewrite the
\* file at the cache path.
C21_CancelledRunLeavesCache ==
    ret.op = "verify" /\ ret.cancelled
       => /\ cacheFile = ret.fileBefore
          /\ cacheData.Files = ret.dataBefore.Files

\* the same for the cancelled runs that return an error
CancelledFailureLeavesCache ==
    ret.op = "verify" /\ ret.cancelled /\ ret.err # NilError
       => /\ cacheFile = ret.fileBefore
          /\ cacheData.Files = ret.dataBefore.Files

\* a cancelled run returned an integrity failure for the files its workers
\* never hashed
CancelledFailureSeen ==
    /\ ret.op = "verify"
    /\ ret.cancelled
    /\ ret.err # NilError
    /\ ret.err.kind = "integrity check failed"
    /\ Len(ret.current.files) < Len(manifest.Files)

(***************************************************************************)
(* Termination after cancellation                                          *)
(***************************************************************************)
\* C31: once the context of a running call is cancelled, the sender and
\* every worker stop and CalculateDirectory returns, for every worker
\* count, every number of queued and in-flight jobs, with and without a rate
\* limiter.
C31_CancelledCallReturns == [](call # NoCall /\ ctxDone => <>(call = NoCall))

\* the same for the calls in which no more jobs fail than the errors
\* channel holds: calls without a rate limiter on a tree with at most
\* BufferSize failing paths
CancelledCallReturnsWithinCapacity ==
    []((/\ call # NoCall
        /\ ctxDone
        /\ ~calc.rateLimited
        /\ Cardinality({q \in Paths : fault[q] # "none"}) <= BufferSize(calc))
          => <>(call = NoCall))

(***************************************************************************)
(* Keys of the cache                                                       *)
(***************************************************************************)
\* C32: the key under which UpdateCacheForFiles stores the entry of a file
\* is the key a worker hands to CheckMetadata for that file, for every
\* target directory, a symlink to the real directory included: right after
\* a VerifyWithCache that returned nil, CheckMetadata under the worker's key
\* is true for every regular file of the manifest.
C32_CacheKeyCoherence ==
    CachedEntry /\ ret.err = NilError
       => \A q \in ret.updated :
             /\ JoinPath(ret.target, q) = JoinPath(EvalSymlinks(ret.target), q)
             /\ CheckMetadata(cacheData, JoinPath(EvalSymlinks(ret.target), q))

\* the same for the runs whose target directory is no symlink
KeyCoherenceOfResolvedTarget ==
    CachedEntry /\ ret.err = NilError /\ ret.target = EvalSymlinks(ret.target)
       => \A q \in ret.updated :
             CheckMetadata(cacheData, JoinPath(EvalSymlinks(ret.target), q))

\* a run on the real directory returned nil and stored entries
KeyCoherenceOfResolvedTargetSeen ==
    /\ CachedEntry
    /\ ret.err = NilError
    /\ ret.target = RealRoot
    /\ ret.updated # {}
    /\ ret.fileBefore = NoFile

(***************************************************************************)
(* The manifest time of the cache                                          *)
(***************************************************************************)
\* C33: after EnableMetadataCache the cache in memory carries the manifest
\* time it was given as ManifestGenTime, whether the loaded document was
\* kept or cleared as older than the manifest, and the document saved after
\* a run that returned nil records that manifest time.
C33_ManifestTimeRecorded ==
    CachedEntry
       => LET manifestTime == ParseRFC3339(manifest.GeneratedAt)
          IN /\ ret.dataBefore.ManifestGenTime = manifestTime
             /\ ret.err = NilError => cacheFile.ManifestGenTime = manifestTime

\* the same for the runs whose loaded document was not older than the
\* manifest
ManifestTimeRecordedWhenKept ==
    /\ CachedEntry
    /\ IsValidForManifest(Load(ret.fileBefore, now).data, ParseRFC3339(manifest.GeneratedAt))
    => LET manifestTime == ParseRFC3339(manifest.GeneratedAt)
       IN /\ ret.dataBefore.ManifestGenTime = manifestTime
          /\ ret.err = NilError => cacheFile.ManifestGenTime = manifestTime

\* a run returned nil that had loaded and kept a document with entries
ManifestTimeRecordedWhenKeptSeen ==
    /\ CachedEntry
    /\ ret.err = NilError
    /\ IsDocument(ret.fileBefore)
    /\ ret.dataBefore.Files # <<>>
    /\ cacheFile.ManifestGenTime = ParseRFC3339(manifest.GeneratedAt)

(***************************************************************************)
(* MetadataVerifier.Save by several processes.  Each process holds its own *)
(* document; all of them write the same sibling '.tmp' path and rename it  *)
(* over the cache path.  The bytes of a document are a sequence of blocks, *)
(* one for the header and one per entry, so documents differ in length.    *)
(* cacheFile is what a reader of the cache path finds.                     *)
(***************************************************************************)
\* json.MarshalIndent of a document
Blocks(doc) ==
    [i \in 1..(1 + Cardinality(DOMAIN doc.Files)) |-> [doc |-> doc, part |-> i]]

\* os.ReadFile of the cache path and json.Unmarshal
ReadCachePath(dir) ==
    IF dir.cache = 0 THEN NoFile
    ELSE LET bytes == dir.content[dir.cache]
         IN IF bytes # <<>> /\ bytes = Blocks(bytes[1].doc) THEN bytes[1].doc
            ELSE Malformed

\* the files no path names and no process has open lose their content
Reclaim(dir, sav) ==
    LET used == {dir.tmp, dir.cache}
                  \cup {sav[p].fd : p \in {q \in Procs : sav[q].pc = "write"}}
    IN [dir EXCEPT !.content = [k \in Inodes |-> IF k \in used THEN dir.content[k]
                                               ELSE <<>>]]

\* the documents a process holds after a verification that returned nil:
\* entries for none, one or two files
SaveDocuments ==
    LET none == MetadataCache(now)
        one == UpdateMetadata(none, JoinPath(RealRoot, "a"), now)
    IN {none, one, UpdateMetadata(one, JoinPath(RealRoot, "d/x.log"), now)}

\* Save up to the marshalling: v.data.CacheHash is set
BeginSave(p, doc) ==
    /\ saving[p].pc = "idle"
    /\ saving' = [saving EXCEPT ![p] = [pc |-> "open", data |-> Save(doc)]]
    /\ UNCHANGED <<fsVars, cacheVars, cacheDir, manifest, ret, baseline, edited,
                   manifestFile, lockVars, poolVars>>

\* os.WriteFile(tempPath, ...): OpenFile with O_WRONLY|O_CREATE|O_TRUNC
OpenTmp(p) ==
    /\ saving[p].pc = "open"
    /\ LET used == {cacheDir.tmp, cacheDir.cache}
                     \cup {saving[q].fd : q \in {r \in Procs : saving[r].pc = "write"}}
           k == IF cacheDir.tmp # 0 THEN cacheDir.tmp
                ELSE CHOOSE j \in Inodes \ used : \A i \in Inodes \ used : j <= i
       IN /\ cacheDir' = [cacheDir EXCEPT !.tmp = k, !.content[k] = <<>>]
          /\ saving' = [saving EXCEPT ![p] = [pc |-> "write", data |-> saving[p].data,
                                               fd |-> k]]
    /\ cacheFile' = ReadCachePath(cacheDir')
    /\ UNCHANGED <<fsVars, cacheData, manifest, ret, baseline, edited, manifestFile,
                   lockVars, poolVars>>

\* os.WriteFile: Write at offset 0 of the open file, and Close
WriteTmp(p) ==
    /\ saving[p].pc = "write"
    /\ saving' = [saving EXCEPT ![p] = [pc |-> "rename", data |-> saving[p].data]]
    /\ LET k == saving[p].fd
           old == cacheDir.content[k]
           bytes == Blocks(saving[p].data)
       IN cacheDir' = Reclaim([cacheDir EXCEPT !.content[k] =
                                  bytes \o SubSeq(old, Len(bytes) + 1, Len(old))],
                              saving')
    /\ cacheFile' = ReadCachePath(cacheDir')
    /\ UNCHANGED <<fsVars, cacheData, manifest, ret, baseline, edited, manifestFile,
                   lockVars, poolVars>>

\* os.Rename(tempPath, v.cachePath); when it fails, os.Remove(tempPath) and
\* the error
RenameTmp(p) ==
    /\ saving[p].pc = "rename"
    /\ IF cacheDir.tmp = 0
       THEN /\ saving' = [saving EXCEPT ![p] = [pc |-> "idle",
                                                 err |-> "failed to save cache"]]
            /\ UNCHANGED cacheDir
       ELSE /\ saving' = [saving EXCEPT ![p] = [pc |-> "idle", err |-> "nil"]]
            /\ cacheDir' = Reclaim([cacheDir EXCEPT !.cache = cacheDir.tmp, !.tmp = 0],
                                   saving')
    /\ cacheFile' = ReadCachePath(cacheDir')
    /\ UNCHANGED <<fsVars, cacheData, manifest, ret, baseline, edited, manifestFile,
                   lockVars, poolVars>>

NextSave ==
    \/ \E p \in Procs, doc \in SaveDocuments : BeginSave(p, doc)
    \/ \E p \in Procs : OpenTmp(p)
    \/ \E p \in Procs : WriteTmp(p)
    \/ \E p \in Procs : RenameTmp(p)

SpecSave == InitCache /\ [][NextSave]_vars

\* C34: at every moment the file at the cache path is absent or a complete
\* document whose cache_hash verifies, also while two processes execute
\* Save for the same cache path at once.
C34_AtomicPersistence ==
    cacheFile = NoFile \/ SavedDocument(cacheFile)

(***************************************************************************)
(* CheckMetadata and the cache decision.  SpecTrust is the specification   *)
(* of the invocations of the command against the manifest at the manifest  *)
(* path, on a tree in which a is written, removed or made unreadable       *)
(* between them.  Every write to a file changes its mtime and ctime.       *)
(***************************************************************************)
NextTrust ==
    \/ Generate(RealRoot, MaxWorkers, <<"*.log">>)
    \/ Discard
    \/ ret = NoReturn /\ Tick
    \/ ret = NoReturn /\ meta["a"].mtime # now /\ \E b \in {"v1", "v2"} : WriteFile("a", b, now)
    \/ ret = NoReturn /\ Remove("a")
    \/ ret = NoReturn /\ InjectFault("a", "io")
    \/ ret = NoReturn /\ manifest # NoManifest /\ SaveToFile
    \/ Exit
    \/ LoadManifest
    \/ \E p \in {-50, 150} : VerifyWithCache(RealRoot, MaxWorkers, p, NoDraws, <<>>)

SpecTrust == InitCache /\ [][NextTrust]_vars

\* the document a process that loads the cache path holds in memory
LoadedCache == Load(cacheFile, now).data

CheckMetadataOfRemovedFile ==
    /\ SavedDocument(cacheFile)
    /\ JoinPath(RealRoot, "a") \in DOMAIN cacheFile.Files
    /\ ~Exists(tree, "a")
    /\ ~CheckMetadata(LoadedCache, JoinPath(RealRoot, "a"))

(***************************************************************************)
(* The cache decision under verify probability 0                           *)
(***************************************************************************)
\* the regular files the walk of the returned run collected
WalkedRegular == {q \in WalkedPaths(ret.excludes) : tree[q].kind = "file"}

\* the worker trusted the cache for q: CheckMetadata was true and the
\* manifest in hand has a hash for q
TrustedByCache(q) ==
    /\ CheckMetadata(ret.dataBefore, JoinPath(EvalSymlinks(ret.target), q))
    /\ q \in PathsOf(manifest.Files)

\* the records the run returned for q
RecordsOf(q) == {i \in 1..Len(ret.current.files) : ret.current.files[i].Path = q}

\* C36: with a verify probability of 0, or one clamped to 0, a regular file
\* with a cache hit and a reference hash is not opened (a file that cannot be
\* opened does not fail the run) and its record carries the reference hash;
\* every other regular file is opened, read and hashed.
C36_TrustAtProbabilityZero ==
    CachedEntry /\ ret.probability <= 0 /\ fault["."] = "none"
       => \A q \in WalkedRegular :
             IF TrustedByCache(q)
             THEN /\ ret.current.err # NilError => ret.current.err.cause.path # JoinPath(EvalSymlinks(ret.target), q)
                  /\ \A i \in RecordsOf(q) :
                        \E j \in 1..Len(manifest.Files) :
                           /\ manifest.Files[j].Path = q
                           /\ ret.current.files[i].Hash = manifest.Files[j].Hash
             ELSE /\ fault[q] = "io" => ret.current.err # NilError
                  /\ \A i \in RecordsOf(q) :
                        ret.current.files[i].Hash = SHA256(tree[q].data)

\* C36 witness: a run whose verify probability was clamped to 0 had a cache
\* hit on a, which could not have been opened, and returned its record with
\* the hash of the manifest
C36_Witness ==
    /\ CachedEntry
    /\ ret.probability < 0
    /\ fault["a"] = "io"
    /\ "a" \in WalkedRegular
    /\ TrustedByCache("a")
    /\ ret.current.err = NilError
    /\ RecordsOf("a") # {}

\* a run under verify probability 0 had a cache hit on a file for which the
\* manifest in hand has no hash, and hashed it
HitWithoutReferenceHash ==
    /\ CachedEntry
    /\ ret.probability <= 0
    /\ "a" \in WalkedRegular
    /\ CheckMetadata(ret.dataBefore, JoinPath(EvalSymlinks(ret.target), "a"))
    /\ "a" \notin PathsOf(manifest.Files)
    /\ RecordsOf("a") # {}

\* a run under verify probability 0 had no cache hit on a file that has a
\* reference hash, and hashed it
MissWithReferenceHash ==
    /\ CachedEntry
    /\ ret.probability <= 0
    /\ "a" \in WalkedRegular
    /\ ~CheckMetadata(ret.dataBefore, JoinPath(EvalSymlinks(ret.target), "a"))
    /\ "a" \in PathsOf(manifest.Files)
    /\ RecordsOf("a") # {}

(***************************************************************************)
(* Directory pruning.  SpecPrune is the sequential specification on a tree *)
(* with a directory logs at the root and another below d.                  *)
(***************************************************************************)
PrunePaths == {"a", "logs/b", "d/logs/b", "d/c"}
PruneExcludes == {<<>>, <<"logs/**">>, <<"**/logs/**">>, <<"d/**">>, <<"a", "d/logs/**">>}

InitPrune ==
    /\ tree \in [PrunePaths -> {NoEntry, RegularFile("v1")}]
    /\ meta = [q \in PrunePaths |-> [mtime |-> 0, ctime |-> 0]]
    /\ fault = [q \in PrunePaths \cup {"."} |-> "none"]
    /\ now = 0
    /\ cacheData = NilCache
    /\ cacheFile = NoFile
    /\ manifest = NoManifest
    /\ ret = NoReturn
    /\ baseline = tree
    /\ edited = FALSE
    /\ manifestFile = NoManifestFile
    /\ cacheDir = NoCacheDir
    /\ saving = NoSaving
    /\ mu = Unlocked
    /\ goroutine = NoGoroutines
    /\ PoolIdle

NextPrune ==
    \/ \E w \in {1, MaxWorkers}, e \in PruneExcludes : Generate(RealRoot, w, e)
    \/ \E q \in PrunePaths : WriteFile(q, "v1", 0)
    \/ \E q \in PrunePaths : Remove(q)
    \/ \E w \in {1, MaxWorkers} : Verify(RealRoot, w, <<>>)

SpecPrune == InitPrune /\ [][NextPrune]_vars

\* the directories above path, as relative paths
DirectoriesAbove(path) ==
    {SubSeq(path, 1, i - 1) : i \in {k \in 1..Len(path) : SubSeq(path, k, k) = Separator}}

\* the paths of the result of the last walk: the manifest generated, or the
\* current state of the verification that returned
WalkResults ==
    PathsOf(manifest.Files)
       \cup (IF ret.op = "verify" /\ ret.current.err = NilError
             THEN PathsOf(ret.current.files) ELSE {})

\* C37: for every exclude pattern prefix/** the walk prunes every directory
\* whose relative path is prefix or ends with /prefix: no file beneath such
\* a directory is part of the result.
C37_PrefixRulePrunes ==
    manifest # NoManifest
       => \A i \in 1..Len(manifest.Excludes) :
             HasSuffix(manifest.Excludes[i], "/**")
                => LET prefix == TrimSuffix(manifest.Excludes[i], "/**")
                   IN \A q \in WalkResults : \A dir \in DirectoriesAbove(q) :
                         ~(dir = prefix \/ HasSuffix(dir, Separator \o prefix))

\* C37 as amended: for every exclude pattern prefix/** the walk prunes the
\* directory whose relative path is prefix, and for every exclude pattern
\* **/name/** every directory whose relative path is name or ends with
\* /name: no file beneath such a directory is part of the result.
C37_PrunedDirectories ==
    manifest # NoManifest
       => \A i \in 1..Len(manifest.Excludes) :
             HasSuffix(manifest.Excludes[i], "/**")
                => LET prefix == TrimSuffix(manifest.Excludes[i], "/**")
                       name == TrimPrefix(prefix, "**/")
                   IN \A q \in WalkResults : \A dir \in DirectoriesAbove(q) :
                         IF HasPrefix(prefix, "**/")
                         THEN ~(dir = name \/ HasSuffix(dir, Separator \o name))
                         ELSE dir # prefix

\* C37 witness: a manifest generated under **/logs/** on a tree that held
\* logs/b, d/logs/b and d/c holds d/c and neither of the other two
C37_Witness ==
    /\ manifest # NoManifest
    /\ manifest.Excludes = <<"**/logs/**">>
    /\ \A q \in {"logs/b", "d/logs/b", "d/c"} : Exists(baseline, q)
    /\ "d/c" \in PathsOf(manifest.Files)
    /\ "logs/b" \notin PathsOf(manifest.Files)
    /\ "d/logs/b" \notin PathsOf(manifest.Files)

\* a manifest generated under logs/** on such a tree holds d/logs/b and not
\* logs/b
PrefixPatternIsAnchored ==
    /\ manifest # NoManifest
    /\ manifest.Excludes = <<"logs/**">>
    /\ \A q \in {"logs/b", "d/logs/b"} : Exists(baseline, q)
    /\ "d/logs/b" \in PathsOf(manifest.Files)
    /\ "logs/b" \notin PathsOf(manifest.Files)

(***************************************************************************)
(* Records and walked paths                                                *)
(***************************************************************************)
\* the paths of a sequence of records, in order
PathSeq(records) == [i \in 1..Len(records) |-> records[i].Path]

\* the relative paths of the walked files, in walk order
WalkedSeq(walked) == [i \in 1..Len(walked) |-> Rel(RealRoot, walked[i])]

\* C38: with no file error and no cancellation, the records calculateFileHashes
\* returns correspond one-to-one to the paths the walk collected: as many
\* records as paths, exactly one record for every walked path, whatever the
\* number of workers and the order of the steps of sender, workers and
\* collector; and no record is ever collected twice.
C38_OneRecordPerWalkedPath ==
    /\ Returned /\ ~ret.cancelled /\ ret.current.err = NilError
          => /\ Len(ret.collected) = Len(ret.walked)
             /\ \A i \in 1..Len(ret.walked) :
                   Cardinality({j \in 1..Len(ret.collected) :
                                   ret.collected[j].Path = WalkedSeq(ret.walked)[i]}) = 1
             /\ Len(ret.current.files) = Len(ret.walked)
    /\ call # NoCall
          => LET got == fileInfos \o results
             IN \A i \in 1..Len(got), j \in 1..Len(got) : got[i].Path = got[j].Path => i = j

\* C38 witness: a run without error or cancellation walked three paths and
\* collected their three records in another order than the walk's
C38_Witness ==
    /\ Returned /\ ~ret.cancelled /\ ret.current.err = NilError
    /\ Len(ret.walked) = 3
    /\ Len(ret.collected) = 3
    /\ PathSeq(ret.collected) # WalkedSeq(ret.walked)

(***************************************************************************)
(* The lock of the MetadataVerifier.  Every method starts with v.mu.Lock() *)
(* or v.mu.RLock() and defers the matching unlock.  sync.RWMutex: Lock     *)
(* takes the writer side and then waits for the readers inside to leave;   *)
(* RLock blocks while a writer holds or waits for the lock, and Unlock     *)
(* lets the blocked readers in.  The effect of a method on the document in *)
(* memory and on the cache path takes place before its deferred unlock.    *)
(***************************************************************************)
Writers == {"UpdateMetadata", "Clear", "Save", "Load", "SetManifestTime"}
Readers == {"CheckMetadata", "IsValidForManifest"}

\* goroutine g is in the body of the method it called
Inside(g) == goroutine[g].pc = "in"

\* RLock that lets a reader in while a writer holds or waits for the lock
RLockIgnoringWriter(g, m) ==
    /\ goroutine[g].pc = "idle"
    /\ m \in Readers
    /\ mu' = [mu EXCEPT !.readers = @ \cup {g}]
    /\ goroutine' = [goroutine EXCEPT ![g] = [pc |-> "in", method |-> m]]
    /\ UNCHANGED <<fsVars, cacheVars, manifest, ret, baseline, edited, manifestFile,
                   saveVars, poolVars>>

\* a writer method is called: the goroutine is at v.mu.Lock()
CallWriter(g, m) ==
    /\ goroutine[g].pc = "idle"
    /\ m \in Writers
    /\ goroutine' = [goroutine EXCEPT ![g] = [pc |-> "lock", method |-> m]]
    /\ UNCHANGED <<fsVars, cacheVars, manifest, ret, baseline, edited, manifestFile,
                   saveVars, mu, poolVars>>

\* v.mu.Lock(), first half: the writer side is taken, new readers block
Lock(g) ==
    /\ goroutine[g].pc = "lock"
    /\ mu.w = 0
    /\ mu' = [mu EXCEPT !.w = g]
    /\ goroutine' = [goroutine EXCEPT ![g].pc = "drain"]
    /\ UNCHANGED <<fsVars, cacheVars, manifest, ret, baseline, edited, manifestFile,
                   saveVars, poolVars>>

\* v.mu.Lock(), second half: the readers inside have left
LockAcquired(g) ==
    /\ goroutine[g].pc = "drain"
    /\ mu.readers = {}
    /\ goroutine' = [goroutine EXCEPT ![g].pc = "in"]
    /\ UNCHANGED <<fsVars, cacheVars, manifest, ret, baseline, edited, manifestFile,
                   saveVars, mu, poolVars>>

\* a reader method is called, v.mu.RLock()
RLock(g, m) ==
    /\ goroutine[g].pc = "idle"
    /\ m \in Readers
    /\ IF mu.w = 0
       THEN /\ mu' = [mu EXCEPT !.readers = @ \cup {g}]
            /\ goroutine' = [goroutine EXCEPT ![g] = [pc |-> "in", method |-> m]]
       ELSE /\ goroutine' = [goroutine EXCEPT ![g] = [pc |-> "rlock", method |-> m]]
            /\ UNCHANGED mu
    /\ UNCHANGED <<fsVars, cacheVars, manifest, ret, baseline, edited, manifestFile,
                   saveVars, poolVars>>

\* the body of a writer method and its deferred v.mu.Unlock(): the readers
\* blocked in RLock are let in
Unlock(g) ==
    /\ Inside(g)
    /\ goroutine[g].method \in Writers
    /\ LET m == goroutine[g].method
           key == JoinPath(RealRoot, "a")
       IN /\ cacheData' = IF m = "Load" THEN Load(cacheFile, now).data
                          ELSE IF m = "SetManifestTime" THEN SetManifestTime(cacheData, now)
                          ELSE IF m = "UpdateMetadata" THEN UpdateMetadata(cacheData, key, now)
                          ELSE IF m = "Clear" THEN Clear(now)
                          ELSE IF cacheData = NilCache THEN cacheData
                          ELSE Save(cacheData)
          /\ cacheFile' = IF m = "Save" /\ cacheData # NilCache THEN Save(cacheData)
                          ELSE cacheFile
    /\ LET blocked == {h \in Goroutines : goroutine[h].pc = "rlock"}
       IN /\ mu' = [w |-> 0, readers |-> blocked]
          /\ goroutine' = [h \in Goroutines |->
                              IF h = g THEN [pc |-> "idle", method |-> ""]
                              ELSE IF h \in blocked
                                   THEN [pc |-> "in", method |-> goroutine[h].method]
                              ELSE goroutine[h]]
    /\ UNCHANGED <<fsVars, manifest, ret, baseline, edited, manifestFile, saveVars,
                   poolVars>>

\* the body of a reader method and its deferred v.mu.RUnlock()
RUnlock(g) ==
    /\ Inside(g)
    /\ goroutine[g].method \in Readers
    /\ mu' = [mu EXCEPT !.readers = @ \ {g}]
    /\ goroutine' = [goroutine EXCEPT ![g] = [pc |-> "idle", method |-> ""]]
    /\ UNCHANGED <<fsVars, cacheVars, manifest, ret, baseline, edited, manifestFile,
                   saveVars, poolVars>>

NextLock ==
    \/ \E g \in Goroutines, m \in Writers : CallWriter(g, m)
    \/ \E g \in Goroutines : Lock(g)
    \/ \E g \in Goroutines : LockAcquired(g)
    \/ \E g \in Goroutines, m \in Readers : RLock(g, m)
    \/ \E g \in Goroutines : Unlock(g)
    \/ \E g \in Goroutines : RUnlock(g)

SpecLock == InitCache /\ [][NextLock]_vars

\* a goroutine waits for the lock
Blocked(g) == goroutine[g].pc \in {"lock", "drain", "rlock"}

\* C39: while a goroutine is inside UpdateMetadata, Clear, Save, Load or
\* SetManifestTime no other goroutine is inside any method of the cache;
\* and whenever a goroutine waits for the lock, some goroutine can take a
\* step that leaves the cache or acquires the lock: no interleaving of
\* concurrent calls deadlocks.
C39_LockingDiscipline ==
    /\ \A g \in Goroutines :
          Inside(g) /\ goroutine[g].method \in Writers
             => \A h \in Goroutines \ {g} : ~Inside(h)
    /\ (\E g \in Goroutines : Blocked(g))
          => \E h \in Goroutines :
                \/ Inside(h)
                \/ goroutine[h].pc = "drain" /\ mu.readers = {}
                \/ goroutine[h].pc = "lock" /\ mu.w = 0

\* C39 witness: two CheckMetadata calls are inside at once while an
\* UpdateMetadata waits for them to leave
C39_Witness ==
    /\ Inside(1) /\ goroutine[1].method = "CheckMetadata"
    /\ Inside(2) /\ goroutine[2].method = "CheckMetadata"
    /\ goroutine[3] = [pc |-> "drain", method |-> "UpdateMetadata"]
====
